---- MODULE Spec2Model ----
(***************************************************************************)
(* Model of bicep_whatif_advisor/noise_filter.py: the pre-LLM property     *)
(* noise filter (filter_whatif_text) and the post-LLM resource             *)
(* reclassification (reclassify_resource_noise), with the functions they   *)
(* rest on: pattern loading, line classification, block parsing and        *)
(* resource pattern matching; and of the CI gate of ci/buckets.py,         *)
(* ci/agents.py and ci/risk_buckets.py: the bucket registry, the enabled   *)
(* buckets and their evaluation against thresholds.                        *)
(*                                                                         *)
(* A Python str is a sequence of one-character strings, so that strip,     *)
(* lower, splitlines, rsplit, join and substring search are computed the   *)
(* way the code computes them.  The alphabet holds no line boundary other  *)
(* than "\n" and no white space other than " " and "\n".                   *)
(***************************************************************************)
EXTENDS Integers, Sequences, FiniteSets, TLC

VARIABLES
    whatif_content,     \* filter_whatif_text: the raw What-If text
    patterns,           \* filter_whatif_text: the list of ParsedPattern
    result,             \* the value the call returned, or the exception it raised
    resources,          \* reclassify_resource_noise: the list of resource dicts
    resource_patterns,  \* reclassify_resource_noise: the list of ParsedPattern
    count,              \* reclassify_resource_noise: the returned int
    args,               \* the arguments, by name, of a call of one of the functions
                        \* under filter_whatif_text and of the pattern loaders
    files,              \* the file system: path -> text of the file, where there is one
    RISK_BUCKETS,       \* ci/buckets.py: the global registry, bucket id -> RiskBucket
    pc                  \* "start" before the call, "done" after it returned

vars == <<whatif_content, patterns, result, resources, resource_patterns, count,
          args, files, RISK_BUCKETS, pc>>

\* The return value of a call that has not returned yet.
None == <<"None">>

\* No call of a function under filter_whatif_text or of a loader is set up.
NoUnitCall == args = None /\ files = None /\ RISK_BUCKETS = None

(***************************************************************************)
(* Bounds of the model.                                                    *)
(***************************************************************************)
\* Most fragments of What-If output concatenated into one input text.
MaxFragments == 3
\* Most resource dicts in one reclassify call.
MaxResources == 2
\* Most leading blanks of a line given to the line classifiers.
MaxIndent == 5
\* Most line fragments concatenated into the text of one pattern file.
MaxPatternLines == 2
\* Most "/"-separated segments of a resource path given to _extract_arm_type.
MaxSegments == 5
\* Largest number of enabled buckets, of custom agent ids and of agents
\* in one batch.
MaxBuckets == 2

\* F(v), with v evaluated once however often F uses its argument.
With(v, F(_)) == CHOOSE r \in {F(x) : x \in {v}} : TRUE

(***************************************************************************)
(* str primitives                                                          *)
(***************************************************************************)
UpperCase == <<"A","B","C","D","E","F","G","H","I","J","K","L","M",
               "N","O","P","Q","R","S","T","U","V","W","X","Y","Z">>
LowerCase == <<"a","b","c","d","e","f","g","h","i","j","k","l","m",
               "n","o","p","q","r","s","t","u","v","w","x","y","z">>

\* str.lower() on one character.
LowerChar(c) ==
    IF \E i \in 1..Len(UpperCase) : UpperCase[i] = c
    THEN LowerCase[CHOOSE i \in 1..Len(UpperCase) : UpperCase[i] = c]
    ELSE c

\* str.lower()
Lower(s) == [i \in 1..Len(s) |-> LowerChar(s[i])]

\* Characters str.strip() and the regex class \s treat as white space.
IsSpace(c) == c \in {" ", "\n"}

\* needle in hay
Contains(needle, hay) ==
    \E i \in 0..(Len(hay) - Len(needle)) : SubSeq(hay, i + 1, i + Len(needle)) = needle

\* s.startswith(prefix)
StartsWith(s, prefix) ==
    Len(s) >= Len(prefix) /\ SubSeq(s, 1, Len(prefix)) = prefix

\* Number of leading characters of s that satisfy IsSpace.
LeadingSpace(s) ==
    IF \A i \in 1..Len(s) : IsSpace(s[i]) THEN Len(s)
    ELSE (CHOOSE i \in 1..Len(s) : ~IsSpace(s[i]) /\ \A j \in 1..(i - 1) : IsSpace(s[j])) - 1

\* Number of trailing characters of s that satisfy IsSpace.
TrailingSpace(s) ==
    IF \A i \in 1..Len(s) : IsSpace(s[i]) THEN Len(s)
    ELSE Len(s) - (CHOOSE i \in 1..Len(s) : ~IsSpace(s[i]) /\ \A j \in (i + 1)..Len(s) : IsSpace(s[j]))

\* str.strip()
Strip(s) ==
    IF \A i \in 1..Len(s) : IsSpace(s[i]) THEN <<>>
    ELSE SubSeq(s, LeadingSpace(s) + 1, Len(s) - TrailingSpace(s))

\* Number of leading " " characters: len(line) - len(line.lstrip(" ")).
Indent(s) ==
    IF \A i \in 1..Len(s) : s[i] = " " THEN Len(s)
    ELSE (CHOOSE i \in 1..Len(s) : s[i] # " " /\ \A j \in 1..(i - 1) : s[j] = " ") - 1

\* str.lstrip(" ")
LStripBlanks(s) == SubSeq(s, Indent(s) + 1, Len(s))

\* str.splitlines(keepends=True): every line keeps its "\n"; a last line
\* without one is a line too; the empty text has no line.
RECURSIVE SplitLines(_)
SplitLines(text) ==
    IF text = <<>> THEN <<>>
    ELSE IF \E i \in 1..Len(text) : text[i] = "\n"
         THEN LET n == CHOOSE i \in 1..Len(text) :
                            text[i] = "\n" /\ \A j \in 1..(i - 1) : text[j] # "\n"
              IN <<SubSeq(text, 1, n)>> \o SplitLines(SubSeq(text, n + 1, Len(text)))
         ELSE <<text>>

\* "".join(lines)
RECURSIVE Join(_)
Join(ls) == IF ls = <<>> THEN <<>> ELSE Head(ls) \o Join(Tail(ls))

\* str.split(sep) for a one-character sep.
RECURSIVE Split(_, _)
Split(s, sep) ==
    IF \E i \in 1..Len(s) : s[i] = sep
    THEN LET n == CHOOSE i \in 1..Len(s) : s[i] = sep /\ \A j \in 1..(i - 1) : s[j] # sep
         IN <<SubSeq(s, 1, n - 1)>> \o Split(SubSeq(s, n + 1, Len(s)), sep)
    ELSE <<s>>

\* sep.join(parts) for a one-character sep.
RECURSIVE JoinWith(_, _)
JoinWith(parts, sep) ==
    IF parts = <<>> THEN <<>>
    ELSE IF Len(parts) = 1 THEN parts[1]
    ELSE parts[1] \o <<sep>> \o JoinWith(Tail(parts), sep)

\* value.rsplit(":", 1) when ":" is in value: the text before the last ":"
\* and the text after it.
RSplitColon(value) ==
    LET n == CHOOSE i \in 1..Len(value) :
                   value[i] = ":" /\ \A j \in (i + 1)..Len(value) : value[j] # ":"
    IN <<SubSeq(value, 1, n - 1), SubSeq(value, n + 1, Len(value))>>

(***************************************************************************)
(* Module constants                                                        *)
(***************************************************************************)
\* _PROPERTY_INDENT_MIN
PROPERTY_INDENT_MIN == 4

\* _CHANGE_SYMBOLS
CHANGE_SYMBOLS == {"+", "-", "~"}

\* The operation names, as str values.
Modify == <<"M","o","d","i","f","y">>
Create == <<"C","r","e","a","t","e">>
Delete == <<"D","e","l","e","t","e">>
Deploy == <<"D","e","p","l","o","y">>
NoChange == <<"N","o","C","h","a","n","g","e">>
Ignore == <<"I","g","n","o","r","e">>

\* _SYMBOL_TO_OPERATION
SYMBOL_TO_OPERATION ==
    [sym \in {"~", "+", "-", "=", "*", "x"} |->
        CASE sym = "~" -> Modify
          [] sym = "+" -> Create
          [] sym = "-" -> Delete
          [] sym = "=" -> Deploy
          [] sym = "*" -> NoChange
          [] sym = "x" -> Ignore]

\* _VALID_OPERATIONS
VALID_OPERATIONS == {Modify, Create, Delete, Deploy, NoChange, Ignore}

\* The symbols the character class of _RESOURCE_HEADER_RE accepts.
HEADER_SYMBOLS == {"~", "+", "-", "=", "*", "x", "!"}

\* The default of filter_whatif_text's fuzzy_threshold, in percent.
DEFAULT_FUZZY_THRESHOLD == 80

\* ParsedPattern(raw, pattern_type, value)
ParsedPattern(raw, pattern_type, value) ==
    [raw |-> raw, pattern_type |-> pattern_type, value |-> value]

(***************************************************************************)
(* Line classification and matching                                        *)
(***************************************************************************)
\* IsPropertyChangeLine with this slip: any indented line counts, the
\* 2-blank indent of headers included.
IsPropertyChangeLine_AnyIndent(line) ==
    LET stripped == LStripBlanks(line)
        indent == Len(line) - Len(stripped)
    IN IF indent < 1 \/ stripped = <<>>
       THEN FALSE
       ELSE stripped[1] \in CHANGE_SYMBOLS

\* _is_property_change_line
IsPropertyChangeLine(line) ==
    LET stripped == LStripBlanks(line)
        indent == Len(line) - Len(stripped)
    IN IF indent < PROPERTY_INDENT_MIN \/ stripped = <<>>
       THEN FALSE
       ELSE stripped[1] \in CHANGE_SYMBOLS

\* re.compile succeeds on value.  The pattern values of this model are either
\* plain literals or hold a "(" that nothing closes, which raises re.error.
ReCompiles(value) ==
    Cardinality({i \in 1..Len(value) : value[i] = "("})
        = Cardinality({i \in 1..Len(value) : value[i] = ")"})

\* re.search(value, line, re.IGNORECASE) for a literal value.
ReSearch(value, line) == Contains(Lower(value), Lower(line))

\* Length of the longest common prefix of a[i..] and b[j..].
RECURSIVE CommonPrefixLen(_, _, _, _)
CommonPrefixLen(a, i, b, j) ==
    IF i > Len(a) \/ j > Len(b) THEN 0
    ELSE IF a[i] # b[j] THEN 0
    ELSE 1 + CommonPrefixLen(a, i + 1, b, j + 1)

\* The least and the greatest element of a non-empty set of integers.
Min(S) == CHOOSE x \in S : \A y \in S : x <= y
Max(S) == CHOOSE x \in S : \A y \in S : x >= y

\* The least i, then the least j, at which a common substring of length k starts.
FirstMatchOfLen(a, b, k) ==
    LET i == Min({x \in 1..Len(a) : \E y \in 1..Len(b) : CommonPrefixLen(a, x, b, y) >= k})
    IN <<i, Min({y \in 1..Len(b) : CommonPrefixLen(a, i, b, y) >= k}), k>>

\* The longest common substring of a and b, both non-empty: <<i, j, k>> with k
\* greatest, then i least, then j least (SequenceMatcher.find_longest_match
\* without junk).
LongestMatch(a, b) ==
    FirstMatchOfLen(a, b,
        Max({CommonPrefixLen(a, i, b, j) : i \in 1..Len(a), j \in 1..Len(b)}))

\* Sum of the sizes of SequenceMatcher.get_matching_blocks().
RECURSIVE MatchingSize(_, _)
MatchingSize(a, b) ==
    IF a = <<>> \/ b = <<>> THEN 0
    ELSE LET m == LongestMatch(a, b)
         IN IF m[3] = 0 THEN 0
            ELSE m[3]
                 + MatchingSize(SubSeq(a, 1, m[1] - 1), SubSeq(b, 1, m[2] - 1))
                 + MatchingSize(SubSeq(a, m[1] + m[3], Len(a)), SubSeq(b, m[2] + m[3], Len(b)))

\* SequenceMatcher(None, a, b).ratio() >= threshold, the threshold in percent:
\* ratio is 2.0 * matches / (len(a) + len(b)), and 1.0 when both are empty.
RatioAtLeast(a, b, threshold) ==
    IF Len(a) + Len(b) = 0 THEN 100 >= threshold
    ELSE 200 * MatchingSize(a, b) >= threshold * (Len(a) + Len(b))

\* MatchesPattern with this slip: a regex that does not compile matches.
MatchesPattern_InvalidRegexMatches(line, pattern, threshold) ==
    CASE pattern.pattern_type = "keyword" -> Contains(Lower(pattern.value), Lower(line))
      [] pattern.pattern_type = "regex" ->
            IF ReCompiles(pattern.value) THEN ReSearch(pattern.value, line) ELSE TRUE
      [] pattern.pattern_type = "fuzzy" ->
            RatioAtLeast(Lower(pattern.value), Lower(line), threshold)
      [] OTHER -> FALSE

\* _matches_pattern
MatchesPattern(line, pattern, threshold) ==
    CASE pattern.pattern_type = "keyword" -> Contains(Lower(pattern.value), Lower(line))
      [] pattern.pattern_type = "regex" ->
            IF ReCompiles(pattern.value) THEN ReSearch(pattern.value, line) ELSE FALSE
      [] pattern.pattern_type = "fuzzy" ->
            RatioAtLeast(Lower(pattern.value), Lower(line), threshold)
      [] OTHER -> FALSE

(***************************************************************************)
(* Pattern loading                                                         *)
(***************************************************************************)
\* The prefixes _parse_pattern_line looks for.
PREFIX_REGEX == <<"r","e","g","e","x",":">>
PREFIX_FUZZY == <<"f","u","z","z","y",":">>
PREFIX_RESOURCE == <<"r","e","s","o","u","r","c","e",":">>

\* _parse_pattern_line
ParsePatternLine(line) ==
    IF StartsWith(line, PREFIX_REGEX)
    THEN ParsedPattern(line, "regex", Strip(SubSeq(line, Len(PREFIX_REGEX) + 1, Len(line))))
    ELSE IF StartsWith(line, PREFIX_FUZZY)
    THEN ParsedPattern(line, "fuzzy", Strip(SubSeq(line, Len(PREFIX_FUZZY) + 1, Len(line))))
    ELSE IF StartsWith(line, PREFIX_RESOURCE)
    THEN ParsedPattern(line, "resource",
                       Strip(SubSeq(line, Len(PREFIX_RESOURCE) + 1, Len(line))))
    ELSE ParsedPattern(line, "keyword", line)

\* A call's outcome: the value it returned or the exception it raised.
Return(value) == [returned |-> value]
Raise(exception) == [raised |-> exception]

\* The loop of _load_patterns_from_path over the lines of the open file, from
\* line i on.
RECURSIVE LoadLines(_, _, _)
LoadLines(flines, i, pats) ==
    IF i > Len(flines) THEN pats
    ELSE LET line == Strip(flines[i])
         IN IF line # <<>> /\ ~StartsWith(line, <<"#">>)
            THEN LoadLines(flines, i + 1, Append(pats, ParsePatternLine(line)))
            ELSE LoadLines(flines, i + 1, pats)

\* _load_patterns_from_path in file system fs: open raises FileNotFoundError
\* when nothing is at path and PermissionError when the file may not be read.
LoadPatternsFromPath(fs, path) ==
    IF path \notin DOMAIN fs THEN Raise("FileNotFoundError")
    ELSE IF ~fs[path].readable THEN Raise("PermissionError")
    ELSE Return(LoadLines(SplitLines(fs[path].text), 1, <<>>))

\* The exceptions "except (FileNotFoundError, IOError)" catches: IOError is
\* OSError, the base class of both.
CAUGHT_BY_BUILTIN == {"FileNotFoundError", "PermissionError"}

\* Path(__file__).parent / "data" / "builtin_noise_patterns.txt"
BUILTIN_PATH == "data/builtin_noise_patterns.txt"

\* LoadBuiltinPatterns with this slip: no exception is caught.
LoadBuiltinPatterns_Propagates(fs) == LoadPatternsFromPath(fs, BUILTIN_PATH)

\* load_builtin_patterns
LoadBuiltinPatterns(fs) ==
    LET loaded == LoadPatternsFromPath(fs, BUILTIN_PATH)
    IN IF "raised" \in DOMAIN loaded /\ loaded.raised \in CAUGHT_BY_BUILTIN
       THEN Return(<<>>)
       ELSE loaded

\* load_user_patterns
LoadUserPatterns(fs, file_path) ==
    IF file_path \notin DOMAIN fs THEN Raise("FileNotFoundError")
    ELSE LoadPatternsFromPath(fs, file_path)

(***************************************************************************)
(* Block parsing                                                           *)
(***************************************************************************)
\* The token group 2 of _RESOURCE_HEADER_RE captures in line, or <<>> when the
\* regex does not match: two blanks, one header symbol, white space, then the
\* run of non-space characters, which must hold a "/" that is neither its
\* first nor its last character.
HeaderToken(line) ==
    IF ~(/\ Len(line) >= 4
         /\ line[1] = " " /\ line[2] = " "
         /\ line[3] \in HEADER_SYMBOLS
         /\ IsSpace(line[4]))
    THEN <<>>
    ELSE LET rest == SubSeq(line, 4, Len(line))
             from == LeadingSpace(rest) + 1
             run == SubSeq(rest, from, Len(rest))
             stop == IF \E i \in 1..Len(run) : IsSpace(run[i])
                     THEN (CHOOSE i \in 1..Len(run) :
                               IsSpace(run[i]) /\ \A j \in 1..(i - 1) : ~IsSpace(run[j])) - 1
                     ELSE Len(run)
             token == SubSeq(run, 1, stop)
         IN IF \E i \in 2..(Len(token) - 1) : token[i] = "/" THEN token ELSE <<>>

\* _is_resource_header
IsResourceHeader(line) == HeaderToken(line) # <<>>

\* _ResourceBlock(header_line, operation, resource_type, lines, property_change_indices)
ResourceBlock(header_line, operation, resource_type, lines, indices) ==
    [header_line |-> header_line, operation |-> operation,
     resource_type |-> resource_type, lines |-> lines,
     property_change_indices |-> indices]

\* OpenBlock with this slip: the header line is not put into the block's lines.
OpenBlock_HeaderNotInLines(line) ==
    LET symbol == line[3]
        operation == IF symbol \in DOMAIN SYMBOL_TO_OPERATION
                     THEN SYMBOL_TO_OPERATION[symbol] ELSE Modify
    IN ResourceBlock(line, operation, HeaderToken(line), <<>>, <<>>)

\* The block a header line opens.
OpenBlock(line) ==
    LET symbol == line[3]
        operation == IF symbol \in DOMAIN SYMBOL_TO_OPERATION
                     THEN SYMBOL_TO_OPERATION[symbol] ELSE Modify
    IN ResourceBlock(line, operation, HeaderToken(line), <<line>>, <<>>)

\* Scan with this slip: a property-change line is recorded under the index
\* after its own.
RECURSIVE Scan_IndexAfterLine(_, _, _, _, _)
Scan_IndexAfterLine(lines, i, preamble, blocks, current) ==
    IF i > Len(lines)
    THEN <<preamble, blocks \o current>>
    ELSE LET line == lines[i]
         IN IF IsResourceHeader(line)
            THEN Scan_IndexAfterLine(lines, i + 1, preamble, blocks \o current,
                                     <<OpenBlock(line)>>)
            ELSE IF current # <<>>
            THEN LET b == current[1]
                     idx == Len(b.lines) + 1
                     nb == [b EXCEPT !.lines = Append(@, line),
                                     !.property_change_indices =
                                         IF IsPropertyChangeLine(line)
                                         THEN Append(@, idx) ELSE @]
                 IN Scan_IndexAfterLine(lines, i + 1, preamble, blocks, <<nb>>)
            ELSE Scan_IndexAfterLine(lines, i + 1, Append(preamble, line), blocks, current)

\* Scan with this slip: a header line met while a block is open joins that
\* block instead of closing it and opening one of its own.
RECURSIVE Scan_HeaderJoinsOpenBlock(_, _, _, _, _)
Scan_HeaderJoinsOpenBlock(lines, i, preamble, blocks, current) ==
    IF i > Len(lines)
    THEN <<preamble, blocks \o current>>
    ELSE LET line == lines[i]
         IN IF IsResourceHeader(line) /\ current = <<>>
            THEN Scan_HeaderJoinsOpenBlock(lines, i + 1, preamble, blocks \o current,
                                           <<OpenBlock(line)>>)
            ELSE IF current # <<>>
            THEN LET b == current[1]
                     idx == Len(b.lines)
                     nb == [b EXCEPT !.lines = Append(@, line),
                                     !.property_change_indices =
                                         IF IsPropertyChangeLine(line)
                                         THEN Append(@, idx) ELSE @]
                 IN Scan_HeaderJoinsOpenBlock(lines, i + 1, preamble, blocks, <<nb>>)
            ELSE Scan_HeaderJoinsOpenBlock(lines, i + 1, Append(preamble, line), blocks,
                                           current)

\* The forward scan of _parse_resource_blocks from line i on.  current is <<>>
\* for None and <<block>> for an open block; indices count from 0 as in the code.
RECURSIVE Scan(_, _, _, _, _)
Scan(lines, i, preamble, blocks, current) ==
    IF i > Len(lines)
    THEN <<preamble, blocks \o current>>
    ELSE LET line == lines[i]
         IN IF IsResourceHeader(line)
            THEN Scan(lines, i + 1, preamble, blocks \o current, <<OpenBlock(line)>>)
            ELSE IF current # <<>>
            THEN LET b == current[1]
                     idx == Len(b.lines)
                     nb == [b EXCEPT !.lines = Append(@, line),
                                     !.property_change_indices =
                                         IF IsPropertyChangeLine(line)
                                         THEN Append(@, idx) ELSE @]
                 IN Scan(lines, i + 1, preamble, blocks, <<nb>>)
            ELSE Scan(lines, i + 1, Append(preamble, line), blocks, current)

\* EpilogueStart stopping at a blank line instead of looking further.
RECURSIVE EpilogueStart_StopsAtBlank(_, _, _)
EpilogueStart_StopsAtBlank(blines, i, start) ==
    IF i < 1 THEN start
    ELSE LET line == blines[i + 1]
         IN IF Strip(line) = <<>>
            THEN start
            ELSE IF line # <<>> /\ ~StartsWith(line, <<" ">>)
            THEN EpilogueStart_StopsAtBlank(blines, i - 1, <<i>>)
            ELSE start

\* The backward loop over the last block's lines, from 0-based index i down to
\* 1: epilogue_start as <<>> for None or <<index>>.
RECURSIVE EpilogueStart(_, _, _)
EpilogueStart(blines, i, start) ==
    IF i < 1 THEN start
    ELSE LET line == blines[i + 1]
         IN IF Strip(line) = <<>>
            THEN EpilogueStart(blines, i - 1, start)
            ELSE IF line # <<>> /\ ~StartsWith(line, <<" ">>)
            THEN EpilogueStart(blines, i - 1, <<i>>)
            ELSE start

\* _parse_resource_blocks: <<preamble, blocks, epilogue>>
ParseResourceBlocks(lines) ==
    LET scanned == Scan(lines, 1, <<>>, <<>>, <<>>)
        preamble == scanned[1]
        blocks == scanned[2]
    IN IF blocks = <<>>
       THEN <<preamble, blocks, <<>>>>
       ELSE LET last == blocks[Len(blocks)]
                start == EpilogueStart(last.lines, Len(last.lines) - 1, <<>>)
            IN IF start = <<>>
               THEN <<preamble, blocks, <<>>>>
               ELSE LET cut == start[1]
                        trimmed == [last EXCEPT
                            !.lines = SubSeq(@, 1, cut),
                            !.property_change_indices = SelectSeq(@, LAMBDA j : j < cut)]
                    IN <<preamble,
                         [blocks EXCEPT ![Len(blocks)] = trimmed],
                         SubSeq(last.lines, cut + 1, Len(last.lines))>>

(***************************************************************************)
(* Resource pattern matching                                               *)
(***************************************************************************)
\* EveryOther with this slip: the name segments are kept.
EveryOther_KeepNames(remaining) == remaining

\* remaining[i] for i in range(0, len(remaining), 2)
RECURSIVE EveryOther(_)
EveryOther(remaining) ==
    IF remaining = <<>> THEN <<>>
    ELSE <<remaining[1]>> \o EveryOther(SubSeq(remaining, 3, Len(remaining)))

\* _extract_arm_type
ExtractArmType(full_path) ==
    LET parts == Split(full_path, "/")
    IN IF Len(parts) < 2 THEN full_path
       ELSE parts[1] \o <<"/">> \o JoinWith(EveryOther(Tail(parts)), "/")

\* op_lookup.get(op_part.lower()): <<>> for None, else <<the operation name>>.
OpLookup(op_part) ==
    IF \E v \in VALID_OPERATIONS : Lower(v) = Lower(op_part)
    THEN <<CHOOSE v \in VALID_OPERATIONS : Lower(v) = Lower(op_part)>>
    ELSE <<>>

\* MatchesResourcePattern with this slip: the needle is looked for in the raw
\* resource_type only, not in the ARM type.
MatchesResourcePattern_RawTypeOnly(block, pattern) ==
    LET arm_type == ExtractArmType(block.resource_type)
        TypeMatches(needle) ==
            Contains(Lower(needle), Lower(block.resource_type))
        value == pattern.value
    IN IF Contains(<<":">>, value)
       THEN LET type_part == Strip(RSplitColon(value)[1])
                op_part == Strip(RSplitColon(value)[2])
                matched_op == OpLookup(op_part)
            IN IF matched_op # <<>>
               THEN IF ~TypeMatches(type_part) THEN FALSE
                    ELSE block.operation = matched_op[1]
               ELSE TypeMatches(value)
       ELSE TypeMatches(value)

\* MatchesResourcePattern with this slip: with an invalid operation name only
\* the part before the colon is matched against the type.
MatchesResourcePattern_InvalidOpTypeOnly(block, pattern) ==
    LET arm_type == ExtractArmType(block.resource_type)
        TypeMatches(needle) ==
            \/ Contains(Lower(needle), Lower(block.resource_type))
            \/ Contains(Lower(needle), Lower(arm_type))
        value == pattern.value
    IN IF Contains(<<":">>, value)
       THEN LET type_part == Strip(RSplitColon(value)[1])
                op_part == Strip(RSplitColon(value)[2])
                matched_op == OpLookup(op_part)
            IN IF matched_op # <<>>
               THEN IF ~TypeMatches(type_part) THEN FALSE
                    ELSE block.operation = matched_op[1]
               ELSE TypeMatches(type_part)
       ELSE TypeMatches(value)

\* _matches_resource_pattern
MatchesResourcePattern(block, pattern) ==
    LET arm_type == ExtractArmType(block.resource_type)
        TypeMatches(needle) ==
            \/ Contains(Lower(needle), Lower(block.resource_type))
            \/ Contains(Lower(needle), Lower(arm_type))
        value == pattern.value
    IN IF Contains(<<":">>, value)
       THEN LET type_part == Strip(RSplitColon(value)[1])
                op_part == Strip(RSplitColon(value)[2])
                matched_op == OpLookup(op_part)
            IN IF matched_op # <<>>
               THEN IF ~TypeMatches(type_part) THEN FALSE
                    ELSE block.operation = matched_op[1]
               ELSE TypeMatches(value)
       ELSE TypeMatches(value)

(***************************************************************************)
(* Main filtering function                                                 *)
(***************************************************************************)
\* [p for p in patterns if p.pattern_type != "resource"]
PropertyPatterns(pats) == SelectSeq(pats, LAMBDA p : p.pattern_type # "resource")

\* [p for p in patterns if p.pattern_type == "resource"]
ResourcePatterns(pats) == SelectSeq(pats, LAMBDA p : p.pattern_type = "resource")

\* AnyMatches trying the first property pattern only.
AnyMatches_FirstOnly(line, property_patterns, threshold) ==
    /\ property_patterns # <<>>
    /\ MatchesPattern(line, property_patterns[1], threshold)

\* any(_matches_pattern(line, p, fuzzy_threshold) for p in property_patterns)
AnyMatches(line, property_patterns, threshold) ==
    \E i \in 1..Len(property_patterns) : MatchesPattern(line, property_patterns[i], threshold)

\* FallbackFilter with this slip: the _is_property_change_line test is left out.
RECURSIVE FallbackFilter_AnyLine(_, _, _, _, _, _)
FallbackFilter_AnyLine(lines, i, property_patterns, threshold, filtered_lines, removed) ==
    IF i > Len(lines) THEN <<filtered_lines, removed>>
    ELSE IF AnyMatches(lines[i], property_patterns, threshold)
    THEN FallbackFilter_AnyLine(lines, i + 1, property_patterns, threshold,
                                filtered_lines, removed + 1)
    ELSE FallbackFilter_AnyLine(lines, i + 1, property_patterns, threshold,
                                Append(filtered_lines, lines[i]), removed)

\* FallbackFilter with this slip: the line after a removed line is kept
\* without being looked at.
RECURSIVE FallbackFilter_SkipsAfterRemoval(_, _, _, _, _, _)
FallbackFilter_SkipsAfterRemoval(lines, i, property_patterns, threshold, filtered_lines, removed) ==
    IF i > Len(lines) THEN <<filtered_lines, removed>>
    ELSE IF /\ IsPropertyChangeLine(lines[i])
            /\ AnyMatches(lines[i], property_patterns, threshold)
    THEN FallbackFilter_SkipsAfterRemoval(
             lines, i + 2, property_patterns, threshold,
             IF i < Len(lines) THEN Append(filtered_lines, lines[i + 1]) ELSE filtered_lines,
             removed + 1)
    ELSE FallbackFilter_SkipsAfterRemoval(lines, i + 1, property_patterns, threshold,
                                          Append(filtered_lines, lines[i]), removed)

\* The fallback loop of filter_whatif_text over lines, from line i on:
\* <<filtered_lines, removed>>.
RECURSIVE FallbackFilter(_, _, _, _, _, _)
FallbackFilter(lines, i, property_patterns, threshold, filtered_lines, removed) ==
    IF i > Len(lines) THEN <<filtered_lines, removed>>
    ELSE IF /\ IsPropertyChangeLine(lines[i])
            /\ AnyMatches(lines[i], property_patterns, threshold)
    THEN FallbackFilter(lines, i + 1, property_patterns, threshold, filtered_lines, removed + 1)
    ELSE FallbackFilter(lines, i + 1, property_patterns, threshold,
                        Append(filtered_lines, lines[i]), removed)

\* for i, line in enumerate(block.lines), from 0-based index i on: <<the lines
\* appended to result_lines, the number added to total_removed>>.
RECURSIVE DropFiltered(_, _, _, _, _)
DropFiltered(blines, i, filtered_indices, kept, removed) ==
    IF i >= Len(blines) THEN <<kept, removed>>
    ELSE IF i \in filtered_indices
    THEN DropFiltered(blines, i + 1, filtered_indices, kept, removed + 1)
    ELSE DropFiltered(blines, i + 1, filtered_indices, Append(kept, blines[i + 1]), removed)

\* FilterBlock with this slip: a block whose property-change lines all matched
\* is dropped whole, whatever its operation.
FilterBlock_SuppressAnyOperation(block, property_patterns, threshold) ==
    LET indices == block.property_change_indices
        filtered_indices ==
            {indices[k] : k \in {n \in 1..Len(indices) :
                AnyMatches(block.lines[indices[n] + 1], property_patterns, threshold)}}
    IN IF property_patterns # <<>> /\ indices # <<>> /\ filtered_indices # {}
       THEN IF Cardinality(filtered_indices) = Len(indices)
            THEN <<<<>>, Len(indices)>>
            ELSE DropFiltered(block.lines, 0, filtered_indices, <<>>, 0)
       ELSE <<block.lines, 0>>

\* One pass of the block loop of filter_whatif_text: <<the lines the block adds to
\* result_lines, the number it adds to total_removed>>.
FilterBlock(block, property_patterns, threshold) ==
    LET indices == block.property_change_indices
        filtered_indices ==
            {indices[k] : k \in {n \in 1..Len(indices) :
                AnyMatches(block.lines[indices[n] + 1], property_patterns, threshold)}}
    IN IF property_patterns # <<>> /\ indices # <<>> /\ filtered_indices # {}
       THEN DropFiltered(block.lines, 0, filtered_indices, <<>>, 0)
       ELSE <<block.lines, 0>>

\* FilterBlocks with this slip: total_removed is set to, not increased by, the
\* number of lines a block lost.
RECURSIVE FilterBlocks_CountAssigned(_, _, _, _, _, _)
FilterBlocks_CountAssigned(blocks, i, property_patterns, threshold, result_lines, total_removed) ==
    IF i > Len(blocks) THEN <<result_lines, total_removed>>
    ELSE With(FilterBlock(blocks[i], property_patterns, threshold),
              LAMBDA out : FilterBlocks_CountAssigned(blocks, i + 1, property_patterns,
                                                      threshold, result_lines \o out[1],
                                                      out[2]))

\* The block loop of filter_whatif_text from block i on: <<result_lines, total_removed>>.
RECURSIVE FilterBlocks(_, _, _, _, _, _)
FilterBlocks(blocks, i, property_patterns, threshold, result_lines, total_removed) ==
    IF i > Len(blocks) THEN <<result_lines, total_removed>>
    ELSE With(FilterBlock(blocks[i], property_patterns, threshold),
              LAMBDA out : FilterBlocks(blocks, i + 1, property_patterns, threshold,
                                        result_lines \o out[1], total_removed + out[2]))

\* FilterFallback with this slip: "\n".join in place of "".join.
FilterFallback_JoinNewline(lines, property_patterns, threshold) ==
    With(FallbackFilter(lines, 1, property_patterns, threshold, <<>>, 0),
         LAMBDA out : <<JoinWith(out[1], "\n"), out[2]>>)

\* The fallback of filter_whatif_text when the text has no resource header.
FilterFallback(lines, property_patterns, threshold) ==
    With(FallbackFilter(lines, 1, property_patterns, threshold, <<>>, 0),
         LAMBDA out : <<Join(out[1]), out[2]>>)

\* FilterParsed with this slip: result_lines.extend(epilogue) is left out.
FilterParsed_NoEpilogue(preamble, blocks, epilogue, property_patterns, threshold) ==
    With(FilterBlocks(blocks, 1, property_patterns, threshold, preamble, 0),
         LAMBDA out : <<Join(out[1]), out[2]>>)

\* The block-aware path of filter_whatif_text.
FilterParsed(preamble, blocks, epilogue, property_patterns, threshold) ==
    With(FilterBlocks(blocks, 1, property_patterns, threshold, preamble, 0),
         LAMBDA out : <<Join(out[1] \o epilogue), out[2]>>)

\* filter_whatif_text: the tuple it returns.
FilterWhatifTextResult(content, pats, threshold) ==
    LET property_patterns == PropertyPatterns(pats)
    IN IF property_patterns = <<>>
       THEN <<content, 0>>
       ELSE With(ParseResourceBlocks(SplitLines(content)),
                 LAMBDA parsed :
                    IF parsed[2] = <<>>
                    THEN FilterFallback(SplitLines(content), property_patterns, threshold)
                    ELSE FilterParsed(parsed[1], parsed[2], parsed[3],
                                      property_patterns, threshold))

(***************************************************************************)
(* Post-LLM resource reclassification                                      *)
(***************************************************************************)
\* Values of the confidence_level field, and the reason reclassification sets.
high == <<"h","i","g","h">>
medium == <<"m","e","d","i","u","m">>
low == <<"l","o","w">>
noise == <<"n","o","i","s","e">>
MATCHED_REASON == <<"M","a","t","c","h","e","d"," ","r","e","s","o","u","r","c","e"," ","n","o","i","s","e"," ","p","a","t","t","e","r","n">>

\* dict.get(key, default)
Get(d, key, default) == IF key \in DOMAIN d THEN d[key] ELSE default

\* Put with this slip: the fields other than key are lost.
Put_DropOthers(d, key, value) == [k \in {key} |-> value]

\* d[key] = value
Put(d, key, value) == [k \in DOMAIN d \cup {key} |-> IF k = key THEN value ELSE d[k]]

\* _matches_resource_pattern_post_llm
MatchesResourcePatternPostLlm_WithArmType(resource_type, action, pattern) ==
    LET TypeMatches(needle) ==
            \/ Contains(Lower(needle), Lower(resource_type))
            \/ Contains(Lower(needle), Lower(ExtractArmType(resource_type)))
        value == pattern.value
    IN IF Contains(<<":">>, value)
       THEN LET type_part == Strip(RSplitColon(value)[1])
                op_part == Strip(RSplitColon(value)[2])
                matched_op == OpLookup(op_part)
            IN IF matched_op # <<>>
               THEN IF ~TypeMatches(type_part) THEN FALSE
                    ELSE Lower(action) = Lower(matched_op[1])
               ELSE TypeMatches(value)
       ELSE TypeMatches(value)

MatchesResourcePatternPostLlm(resource_type, action, pattern) ==
    LET TypeMatches(needle) == Contains(Lower(needle), Lower(resource_type))
        value == pattern.value
    IN IF Contains(<<":">>, value)
       THEN LET type_part == Strip(RSplitColon(value)[1])
                op_part == Strip(RSplitColon(value)[2])
                matched_op == OpLookup(op_part)
            IN IF matched_op # <<>>
               THEN IF ~TypeMatches(type_part) THEN FALSE
                    ELSE Lower(action) = Lower(matched_op[1])
               ELSE TypeMatches(value)
       ELSE TypeMatches(value)

\* ReclassifyLoop with this slip: only "low" is skipped, "noise" is not.
RECURSIVE ReclassifyLoop_NoiseNotSkipped(_, _, _, _)
ReclassifyLoop_NoiseNotSkipped(res, i, rpats, n) ==
    IF i > Len(res) THEN <<res, n>>
    ELSE LET resource == res[i]
             resource_type == Get(resource, "resource_type", <<>>)
             action == Get(resource, "action", <<>>)
             current_confidence == Lower(Get(resource, "confidence_level", medium))
         IN IF current_confidence = low
            THEN ReclassifyLoop_NoiseNotSkipped(res, i + 1, rpats, n)
            ELSE IF \E k \in 1..Len(rpats) :
                        MatchesResourcePatternPostLlm(resource_type, action, rpats[k])
            THEN ReclassifyLoop_NoiseNotSkipped(
                     [res EXCEPT ![i] = Put(Put(resource, "confidence_level", low),
                                            "confidence_reason", MATCHED_REASON)],
                     i + 1, rpats, n + 1)
            ELSE ReclassifyLoop_NoiseNotSkipped(res, i + 1, rpats, n)

\* The loop of reclassify_resource_noise from resource i on: <<resources, count>>.
RECURSIVE ReclassifyLoop(_, _, _, _)
ReclassifyLoop(res, i, rpats, n) ==
    IF i > Len(res) THEN <<res, n>>
    ELSE LET resource == res[i]
             resource_type == Get(resource, "resource_type", <<>>)
             action == Get(resource, "action", <<>>)
             current_confidence == Lower(Get(resource, "confidence_level", medium))
         IN IF current_confidence \in {low, noise}
            THEN ReclassifyLoop(res, i + 1, rpats, n)
            ELSE IF \E k \in 1..Len(rpats) :
                        MatchesResourcePatternPostLlm(resource_type, action, rpats[k])
            THEN ReclassifyLoop(
                     [res EXCEPT ![i] = Put(Put(resource, "confidence_level", low),
                                            "confidence_reason", MATCHED_REASON)],
                     i + 1, rpats, n + 1)
            ELSE ReclassifyLoop(res, i + 1, rpats, n)

\* reclassify_resource_noise: <<the resources after the call, the int returned>>.
ReclassifyResourceNoise(res, rpats) ==
    IF rpats = <<>> \/ res = <<>> THEN <<res, 0>>
    ELSE ReclassifyLoop(res, 1, rpats, 0)

(***************************************************************************)
(* CI gate: bucket registry, enabled buckets, risk bucket evaluation       *)
(***************************************************************************)
\* A dict without keys; the model also writes it for an argument left at its
\* default None where the code only tests the argument's truth.
EmptyDict == [key \in {} |-> key]

\* dict.update: d with the items of other.
Update(d, other) ==
    [key \in DOMAIN d \cup DOMAIN other |->
        IF key \in DOMAIN other THEN other[key] ELSE d[key]]

\* The fields of RiskBucket that the registry and the gate read.
RiskBucket(id, optional, default_threshold, custom) ==
    [id |-> id, optional |-> optional, default_threshold |-> default_threshold,
     custom |-> custom]

\* RISK_BUCKETS as the module defines it.
BUILTIN_RISK_BUCKETS ==
    [id \in {"drift", "intent"} |->
        IF id = "drift" THEN RiskBucket("drift", FALSE, high, FALSE)
        ELSE RiskBucket("intent", TRUE, high, FALSE)]

\* BUILTIN_BUCKET_IDS
BUILTIN_BUCKET_IDS == {"drift", "intent"}

\* get_enabled_buckets appending intent whenever it is not skipped.
GetEnabledBuckets_IntentWithoutMetadata(skip_drift, skip_intent, has_pr_metadata, custom_agent_ids, skip_agents) ==
    LET skip_set == {skip_agents[i] : i \in 1..Len(skip_agents)}
    IN (IF ~skip_drift THEN <<"drift">> ELSE <<>>)
       \o (IF ~skip_intent THEN <<"intent">> ELSE <<>>)
       \o SelectSeq(custom_agent_ids, LAMBDA agent_id : agent_id \notin skip_set)

\* get_enabled_buckets; custom_agent_ids and skip_agents are lists, the empty
\* list also standing for None.
GetEnabledBuckets(skip_drift, skip_intent, has_pr_metadata, custom_agent_ids, skip_agents) ==
    LET skip_set == {skip_agents[i] : i \in 1..Len(skip_agents)}
    IN (IF ~skip_drift THEN <<"drift">> ELSE <<>>)
       \o (IF ~skip_intent /\ has_pr_metadata THEN <<"intent">> ELSE <<>>)
       \o SelectSeq(custom_agent_ids, LAMBDA agent_id : agent_id \notin skip_set)

\* get_bucket in registry: <<>> for None, else <<the bucket>>.
GetBucket(registry, bucket_id) ==
    IF bucket_id \in DOMAIN registry THEN <<registry[bucket_id]>> ELSE <<>>

\* The first loop of register_agents: some agent id is a built-in id.
CollidesWithBuiltin(agents) ==
    \E i \in 1..Len(agents) : agents[i].id \in BUILTIN_BUCKET_IDS

\* The second loop of register_agents: some agent id occurs twice.
HasDuplicateIds(agents) ==
    \E i, j \in 1..Len(agents) : i < j /\ agents[i].id = agents[j].id

\* The third loop of register_agents from agent i on: the registry after it.
RECURSIVE RegisterLoop(_, _, _)
RegisterLoop(registry, agents, i) ==
    IF i > Len(agents) THEN registry
    ELSE RegisterLoop(Update(registry, [id \in {agents[i].id} |-> agents[i]]), agents, i + 1)

\* register_agents checking each agent right before writing it, in one loop
\* from agent i on.
RECURSIVE CheckAndRegisterLoop(_, _, _)
CheckAndRegisterLoop(registry, agents, i) ==
    IF i > Len(agents)
    THEN <<registry, Return([k \in 1..Len(agents) |-> agents[k].id])>>
    ELSE IF agents[i].id \in BUILTIN_BUCKET_IDS
    THEN <<registry, Raise("ValueError")>>
    ELSE IF \E k \in 1..(i - 1) : agents[k].id = agents[i].id
    THEN <<registry, Raise("ValueError")>>
    ELSE CheckAndRegisterLoop(Update(registry, [id \in {agents[i].id} |-> agents[i]]),
                              agents, i + 1)

\* register_agents with this slip: no check of the whole batch before writing.
RegisterAgents_CheckWhileWriting(registry, agents) ==
    CheckAndRegisterLoop(registry, agents, 1)

\* register_agents: <<the registry after the call, the call's outcome>>.
RegisterAgents(registry, agents) ==
    IF CollidesWithBuiltin(agents) THEN <<registry, Raise("ValueError")>>
    ELSE IF HasDuplicateIds(agents) THEN <<registry, Raise("ValueError")>>
    ELSE <<RegisterLoop(registry, agents, 1),
           Return([i \in 1..Len(agents) |-> agents[i].id])>>

\* RISK_LEVELS of ci/verdict.py, lowest first.
RISK_LEVELS == <<low, medium, high>>

\* list.index for a value the list holds.
Index(list, value) == CHOOSE i \in 1..Len(list) : list[i] = value

\* _validate_risk_level
ValidateRiskLevel(risk_level) ==
    LET risk == Lower(risk_level)
    IN IF \E i \in 1..Len(RISK_LEVELS) : RISK_LEVELS[i] = risk THEN risk ELSE low

\* _exceeds_threshold with > in place of >=.
ExceedsThreshold_Strict(risk_level, threshold) ==
    Index(RISK_LEVELS, Lower(risk_level)) > Index(RISK_LEVELS, Lower(threshold))

\* _exceeds_threshold, for levels RISK_LEVELS holds.
ExceedsThreshold(risk_level, threshold) ==
    Index(RISK_LEVELS, Lower(risk_level)) >= Index(RISK_LEVELS, Lower(threshold))

\* The entry evaluate_risk_buckets makes up for a bucket without assessment.
DEFAULT_ASSESSMENT_ENTRY ==
    [risk_level |-> low, concerns |-> <<>>, reasoning |-> "No risk assessment provided"]

\* The thresholds dict of evaluate_risk_buckets; an empty operations_threshold
\* and an empty custom_thresholds are false in the code's tests.
Thresholds(drift_threshold, intent_threshold, operations_threshold, custom_thresholds) ==
    LET builtin == [id \in {"drift", "intent"} |->
                       IF id = "drift" THEN drift_threshold ELSE intent_threshold]
        with_operations ==
            IF operations_threshold # <<>>
            THEN Update(builtin, [id \in {"operations"} |-> operations_threshold])
            ELSE builtin
    IN IF custom_thresholds # EmptyDict
       THEN Update(with_operations, custom_thresholds)
       ELSE with_operations

\* The loop of evaluate_risk_buckets from enabled bucket i on: failed_buckets.
RECURSIVE EvaluateLoop(_, _, _, _, _, _)
EvaluateLoop(registry, risk_assessment, enabled_buckets, thresholds, i, failed_buckets) ==
    IF i > Len(enabled_buckets) THEN failed_buckets
    ELSE LET bucket_id == enabled_buckets[i]
         IN IF bucket_id \notin DOMAIN risk_assessment
            THEN EvaluateLoop(registry, risk_assessment, enabled_buckets, thresholds,
                              i + 1, failed_buckets)
            ELSE LET risk_level ==
                         ValidateRiskLevel(Get(risk_assessment[bucket_id], "risk_level", low))
                     bucket == GetBucket(registry, bucket_id)
                     threshold ==
                         IF bucket_id \in DOMAIN thresholds THEN thresholds[bucket_id]
                         ELSE IF bucket # <<>> THEN bucket[1].default_threshold
                         ELSE high
                 IN EvaluateLoop(registry, risk_assessment, enabled_buckets, thresholds,
                                 i + 1,
                                 IF ExceedsThreshold(risk_level, threshold)
                                 THEN Append(failed_buckets, bucket_id)
                                 ELSE failed_buckets)

\* evaluate_risk_buckets: <<is_safe, failed_buckets, risk_assessment>>.
EvaluateRiskBuckets(registry, data, enabled_buckets, drift_threshold, intent_threshold, operations_threshold, custom_thresholds) ==
    LET risk_assessment == Get(data, "risk_assessment", EmptyDict)
    IN IF risk_assessment = EmptyDict
       THEN <<TRUE, <<>>,
              [bucket_id \in {enabled_buckets[i] : i \in 1..Len(enabled_buckets)} |->
                  DEFAULT_ASSESSMENT_ENTRY]>>
       ELSE LET failed_buckets ==
                    EvaluateLoop(registry, risk_assessment, enabled_buckets,
                                 Thresholds(drift_threshold, intent_threshold,
                                            operations_threshold, custom_thresholds),
                                 1, <<>>)
            IN <<Len(failed_buckets) = 0, failed_buckets, risk_assessment>>

(***************************************************************************)
(* Inputs                                                                  *)
(***************************************************************************)
\* Fragments of What-If output; an input text is a concatenation of them.
FragModify == <<" "," ","~"," ","N","/","V","n","/","a","\n">>
FragCreate == <<" "," ","+"," ","N","/","V","n","/","e","t","a","g","\n">>
FragDelete == <<" "," ","-"," ","N","/","V","n","/","a","\n">>
FragAttribute == <<" "," "," "," ","i","d",":"," ","e","t","a","g","\n">>
FragETag == <<" "," "," "," ","~"," ","E","T","a","g",":"," ","1","\n">>
FragAddr == <<" "," "," "," ","+"," ","a","d","d","r","\n">>
FragBlank == <<"\n">>
FragSummary == <<"R","e","s",":"," ","1","\n">>
FragNoNewline == <<"R","e","s">>
FragNoiseBlock == FragModify \o FragETag

Fragments == {FragModify, FragCreate, FragDelete, FragAttribute, FragETag, FragAddr,
              FragBlank, FragSummary, FragNoNewline, FragNoiseBlock}

\* Sequences over S of length at most n.
SeqsUpTo(S, n) == UNION {[1..k -> S] : k \in 0..n}

\* The input texts.
Texts == {Join(fs) : fs \in SeqsUpTo(Fragments, MaxFragments)}

\* Patterns, as the pattern loader or a caller builds them.
KwETag == ParsedPattern(<<"e","t","a","g">>, "keyword", <<"e","t","a","g">>)
KwAddr == ParsedPattern(<<"a","d","d","r">>, "keyword", <<"a","d","d","r">>)
RegexAddr == ParsedPattern(<<"r","e","g","e","x",":"," ","a","d","d","r">>, "regex", <<"a","d","d","r">>)
RegexInvalid == ParsedPattern(<<"r","e","g","e","x",":"," ","(">>, "regex", <<"(">>)
FuzzyETag == ParsedPattern(<<" "," "," "," ","~"," ","e","t","a","g",":"," ","1">>, "fuzzy", <<" "," "," "," ","~"," ","e","t","a","g",":"," ","1">>)
ResVn == ParsedPattern(<<"r","e","s","o","u","r","c","e",":"," ","v","n">>, "resource", <<"v","n">>)
ResVnModify == ParsedPattern(<<"r","e","s","o","u","r","c","e",":"," ","v","n",":","M","o","d","i","f","y">>, "resource", <<"v","n",":","M","o","d","i","f","y">>)
ResDs == ParsedPattern(<<"r","e","s","o","u","r","c","e",":"," ","d","s">>, "resource", <<"d","s">>)
ResMsVnModify == ParsedPattern(<<"r","e","s","o","u","r","c","e",":"," ","M","i","c","r","o","s","o","f","t",".","N","e","t","w","o","r","k","/","V","n",":","M","o","d","i","f","y">>, "resource", <<"M","i","c","r","o","s","o","f","t",".","N","e","t","w","o","r","k","/","V","n",":","M","o","d","i","f","y">>)
ResVnCreateLower == ParsedPattern(<<"r","e","s","o","u","r","c","e",":"," ","v","n",":","c","r","e","a","t","e">>, "resource", <<"v","n",":","c","r","e","a","t","e">>)

ResVnSub == ParsedPattern(<<"r","e","s","o","u","r","c","e",":"," ","V","n","/","S","u","b">>, "resource", <<"V","n","/","S","u","b">>)
ResVnSubModify == ParsedPattern(<<"r","e","s","o","u","r","c","e",":"," ","v","n","/","s","u","b",":","M","o","d","i","f","y">>, "resource", <<"v","n","/","s","u","b",":","M","o","d","i","f","y">>)
ResVnColonV2 == ParsedPattern(<<"r","e","s","o","u","r","c","e",":"," ","v","n",":","v","2">>, "resource", <<"v","n",":","v","2">>)
ResVnMod == ParsedPattern(<<"r","e","s","o","u","r","c","e",":"," ","v","n",":","M","o","d">>, "resource", <<"v","n",":","M","o","d">>)
ResVnSpacedDelete == ParsedPattern(<<"r","e","s","o","u","r","c","e",":"," ","v","n"," ",":"," ","D","e","l","e","t","e">>, "resource", <<"v","n"," ",":"," ","D","e","l","e","t","e">>)

\* The pattern lists given to filter_whatif_text.
PatternLists == {
    <<>>,
    <<KwETag>>,
    <<ResVn>>,
    <<ResVnModify, KwETag>>,
    <<RegexInvalid, RegexAddr>>,
    <<RegexInvalid>>,
    <<KwETag, RegexInvalid>>,
    <<FuzzyETag, KwAddr>>
}

\* Field values of the resource dicts the LLM returns.
TypeVn == <<"N","e","t","w","o","r","k","/","V","n">>
TypeDs == <<"I","n","s","i","g","h","t","s","/","d","s">>
ConfLowCapital == <<"L","o","w">>
ActionCreateLower == Lower(Create)

\* The resource dicts: confidence_level may be missing.
ResourceDicts ==
    {[resource_type |-> t, action |-> a, confidence_level |-> c] :
        t \in {TypeVn, TypeDs}, a \in {Modify, ActionCreateLower},
        c \in {high, low, noise, ConfLowCapital}}
    \cup
    {[resource_type |-> t, action |-> a] :
        t \in {TypeVn, TypeDs}, a \in {Modify, ActionCreateLower}}

\* The resource pattern lists given to reclassify_resource_noise.
ResourcePatternLists == {
    <<>>,
    <<ResVn>>,
    <<ResVnModify>>,
    <<ResMsVnModify>>,
    <<ResDs, ResVnCreateLower>>
}

\* Resource paths of What-If headers: names interleaved with the type segments.
PathVn == <<"N","/","V","n","/","a">>
PathVnSub == <<"N","/","V","n","/","a","/","S","u","b","/","b">>
PathVnColon == <<"N","/","V","n",":","v","2","/","a">>
PathDs == <<"I","/","d","s","/","x">>

\* Lines of a pattern file: keywords, comments and blank lines with and without
\* blanks around them, the three prefixes, a prefix with nothing after it, after
\* an indent and in capitals, and a last line without line end.
PatternFileLines == {
    <<"e","t","a","g","\n">>,
    <<" "," ","e","t","a","g"," ","\n">>,
    <<"#"," ","c","\n">>,
    <<" "," ","#"," ","c","\n">>,
    <<"\n">>,
    <<" "," ","\n">>,
    <<"r","e","g","e","x",":"," "," ","a"," ","\n">>,
    <<"f","u","z","z","y",":"," ","b"," ","c","\n">>,
    <<"r","e","s","o","u","r","c","e",":"," ","v","n",":","M","o","d","i","f","y","\n">>,
    <<"r","e","g","e","x",":","\n">>,
    <<" "," ","r","e","g","e","x",":"," ","a","\n">>,
    <<"R","e","g","e","x",":"," ","a","\n">>,
    <<"e","t","a","g">>
}

\* The texts of pattern files.
PatternFileTexts == {Join(ls) : ls \in SeqsUpTo(PatternFileLines, MaxPatternLines)}

\* The path of a user pattern file.
USER_PATH == "patterns.txt"

\* A file of the file system: one that may not be read, or one with its text.
FileEntries ==
    {[readable |-> FALSE]} \cup {[readable |-> TRUE, text |-> t] : t \in PatternFileTexts}

\* The file systems: no file, or one file at the user path or at the built-in path.
FileSystems ==
    {[path \in {} |-> [readable |-> FALSE]]} \cup
    {[path \in {at} |-> entry] : at \in {USER_PATH, BUILTIN_PATH}, entry \in FileEntries}

\* What a line of What-If output holds after its indent: a first character (a
\* header symbol or a letter) followed by nothing, by a resource type with or
\* without a blank before it, by a legend word, or by a token ending in "/".
LineBodies ==
    {<<>>} \cup
    {<<first>> \o rest :
        first \in HEADER_SYMBOLS \cup {"a"},
        rest \in {<<>>, <<" ","N","/","V","n">>, <<"N","/","V","n">>,
                  <<" ","M","o","d","i","f","y">>, <<" ","N","/">>}}

\* The lines given to the line classifiers, with and without their line end.
ClassifiedLines ==
    {[i \in 1..n |-> " "] \o body \o ending :
        n \in 0..MaxIndent, body \in LineBodies, ending \in {<<>>, <<"\n">>}}

\* Segments of a resource path: a namespace or name, a type, an empty segment.
PathSegments == {<<"N">>, <<"V","n">>, <<>>}

\* The resource paths given to _extract_arm_type: one segment or more, so that
\* the empty path is the path of one empty segment.
FullPaths == {JoinWith(segs, "/") : segs \in SeqsUpTo(PathSegments, MaxSegments) \ {<<>>}}

\* The resource patterns given to _matches_resource_pattern.
ResourcePatternSet == {ResVn, ResDs, ResVnModify, ResVnCreateLower, ResVnSub,
                       ResVnSubModify, ResVnColonV2, ResVnMod, ResVnSpacedDelete}

\* The blocks given to _matches_resource_pattern: those the parser opens at a
\* header line with any header symbol and any of the resource paths.
Blocks ==
    {OpenBlock(<<" ", " ", symbol, " ">> \o path \o <<"\n">>) :
        symbol \in HEADER_SYMBOLS, path \in {PathVn, PathVnSub, PathVnColon, PathDs}}

\* Risk levels as the LLM response gives them: upper case and unrecognised
\* ones included.
HighCapital == <<"H","I","G","H">>
extreme == <<"e","x","t","r","e","m","e">>

\* The buckets of the evaluated assessments: a built-in one, the one with a
\* threshold parameter of its own, and a custom agent.
EvaluatedBucketIds == {"drift", "operations", "compliance"}

\* What a risk assessment holds for one bucket.
BucketData ==
    {[risk_level |-> level, concerns |-> <<>>] : level \in {medium, HighCapital, extreme}}
    \cup {[concerns |-> <<>>]}

\* Risk assessments: any subset of the buckets, each with some bucket data.
RiskAssessments ==
    UNION {[ids -> BucketData] : ids \in SUBSET EvaluatedBucketIds}

\* LLM responses, with and without the key risk_assessment.
ResponseData ==
    {[risk_assessment |-> assessment] : assessment \in RiskAssessments}
    \cup {[resources |-> <<>>]}

\* Custom agents as agents.py builds them.
AgentCompliance == RiskBucket("compliance", TRUE, medium, TRUE)
AgentComplianceLow == RiskBucket("compliance", TRUE, low, TRUE)
AgentCost == RiskBucket("cost", TRUE, high, TRUE)
AgentDrift == RiskBucket("drift", TRUE, low, TRUE)
AgentIntent == RiskBucket("intent", TRUE, medium, TRUE)

\* Registries: the built-in one, and with the compliance agent registered.
Registries ==
    {BUILTIN_RISK_BUCKETS,
     Update(BUILTIN_RISK_BUCKETS, [id \in {"compliance"} |-> AgentCompliance])}

\* The calls of evaluate_risk_buckets; thresholds are valid risk levels.
EvaluateCalls ==
    [data : ResponseData,
     enabled_buckets : SeqsUpTo(EvaluatedBucketIds, MaxBuckets),
     drift_threshold : {high, medium},
     intent_threshold : {high},
     operations_threshold : {low, <<>>},
     custom_thresholds : {EmptyDict, [id \in {"compliance"} |-> low]}]

\* The calls of get_enabled_buckets.
EnabledCalls ==
    [skip_drift : BOOLEAN, skip_intent : BOOLEAN, has_pr_metadata : BOOLEAN,
     custom_agent_ids : SeqsUpTo({"compliance", "cost"}, MaxBuckets),
     skip_agents : {<<>>, <<"compliance">>, <<"cost", "compliance">>, <<"drift">>}]

\* The batches of register_agents.
AgentBatches ==
    SeqsUpTo({AgentCompliance, AgentComplianceLow, AgentCost, AgentDrift, AgentIntent},
             MaxBuckets)

(***************************************************************************)
(* filter_whatif_text as a state machine                                   *)
(***************************************************************************)
InitFilter ==
    /\ whatif_content \in Texts
    /\ patterns \in PatternLists
    /\ result = None
    /\ resources = <<>>
    /\ resource_patterns = <<>>
    /\ count = None
    /\ NoUnitCall
    /\ pc = "start"

\* The call filter_whatif_text(whatif_content, patterns).
FilterWhatifText ==
    /\ pc = "start"
    /\ result' = FilterWhatifTextResult(whatif_content, patterns, DEFAULT_FUZZY_THRESHOLD)
    /\ pc' = "done"
    /\ UNCHANGED <<whatif_content, patterns, resources, resource_patterns, count, args, files, RISK_BUCKETS>>

NextFilter == FilterWhatifText

SpecFilter == InitFilter /\ [][NextFilter]_vars

(***************************************************************************)
(* reclassify_resource_noise as a state machine                            *)
(***************************************************************************)
InitReclassify ==
    /\ whatif_content = <<>>
    /\ patterns = <<>>
    /\ result = None
    /\ resources \in SeqsUpTo(ResourceDicts, MaxResources)
    /\ resource_patterns \in ResourcePatternLists
    /\ count = None
    /\ NoUnitCall
    /\ pc = "start"

\* The call reclassify_resource_noise(resources, resource_patterns), which
\* changes the dicts of resources in place.
Reclassify ==
    /\ pc = "start"
    /\ LET out == ReclassifyResourceNoise(resources, resource_patterns)
       IN /\ resources' = out[1]
          /\ count' = out[2]
    /\ pc' = "done"
    /\ UNCHANGED <<whatif_content, patterns, result, resource_patterns, args, files, RISK_BUCKETS>>

NextReclassify == Reclassify

SpecReclassify == InitReclassify /\ [][NextReclassify]_vars

(***************************************************************************)
(* _matches_resource_pattern as a state machine                            *)
(***************************************************************************)
InitMatchResource ==
    /\ whatif_content = <<>>
    /\ patterns = <<>>
    /\ result = None
    /\ resources = <<>>
    /\ resource_patterns = <<>>
    /\ count = None
    /\ args \in [block : Blocks, pattern : ResourcePatternSet]
    /\ files = None
    /\ RISK_BUCKETS = None
    /\ pc = "start"

\* The call _matches_resource_pattern(block, pattern).
MatchResource ==
    /\ pc = "start"
    /\ result' = MatchesResourcePattern(args.block, args.pattern)
    /\ pc' = "done"
    /\ UNCHANGED <<whatif_content, patterns, resources, resource_patterns, count,
                   args, files, RISK_BUCKETS>>

NextMatchResource == MatchResource

SpecMatchResource == InitMatchResource /\ [][NextMatchResource]_vars

(***************************************************************************)
(* _matches_resource_pattern and _matches_resource_pattern_post_llm on a   *)
(* block and on the record of the same resource, as a state machine        *)
(***************************************************************************)
InitMatchPair ==
    /\ whatif_content = <<>>
    /\ patterns = <<>>
    /\ result = None
    /\ resources = <<>>
    /\ resource_patterns = <<>>
    /\ count = None
    /\ args \in {[block |-> b, resource_type |-> b.resource_type, action |-> b.operation,
                   pattern |-> p] : b \in Blocks, p \in ResourcePatternSet}
    /\ files = None
    /\ RISK_BUCKETS = None
    /\ pc = "start"

\* The calls _matches_resource_pattern(block, pattern) and
\* _matches_resource_pattern_post_llm(resource_type, action, pattern).
MatchPair ==
    /\ pc = "start"
    /\ result' = [matches_resource_pattern |->
                      MatchesResourcePattern(args.block, args.pattern),
                  matches_resource_pattern_post_llm |->
                      MatchesResourcePatternPostLlm(args.resource_type, args.action,
                                                    args.pattern)]
    /\ pc' = "done"
    /\ UNCHANGED <<whatif_content, patterns, resources, resource_patterns, count,
                   args, files, RISK_BUCKETS>>

NextMatchPair == MatchPair

SpecMatchPair == InitMatchPair /\ [][NextMatchPair]_vars

(***************************************************************************)
(* _extract_arm_type as a state machine                                    *)
(***************************************************************************)
InitExtractArmType ==
    /\ whatif_content = <<>>
    /\ patterns = <<>>
    /\ result = None
    /\ resources = <<>>
    /\ resource_patterns = <<>>
    /\ count = None
    /\ args \in [full_path : FullPaths]
    /\ files = None
    /\ RISK_BUCKETS = None
    /\ pc = "start"

\* The call _extract_arm_type(full_path).
ExtractArm ==
    /\ pc = "start"
    /\ result' = ExtractArmType(args.full_path)
    /\ pc' = "done"
    /\ UNCHANGED <<whatif_content, patterns, resources, resource_patterns, count,
                   args, files, RISK_BUCKETS>>

NextExtractArmType == ExtractArm

SpecExtractArmType == InitExtractArmType /\ [][NextExtractArmType]_vars

(***************************************************************************)
(* _is_resource_header and _is_property_change_line as a state machine     *)
(***************************************************************************)
InitClassify ==
    /\ whatif_content = <<>>
    /\ patterns = <<>>
    /\ result = None
    /\ resources = <<>>
    /\ resource_patterns = <<>>
    /\ count = None
    /\ args \in [line : ClassifiedLines]
    /\ files = None
    /\ RISK_BUCKETS = None
    /\ pc = "start"

\* The calls _is_resource_header(line) and _is_property_change_line(line), as
\* the parser makes them on each line.
Classify ==
    /\ pc = "start"
    /\ result' = [is_resource_header |-> IsResourceHeader(args.line),
                  is_property_change_line |-> IsPropertyChangeLine(args.line)]
    /\ pc' = "done"
    /\ UNCHANGED <<whatif_content, patterns, resources, resource_patterns, count,
                   args, files, RISK_BUCKETS>>

NextClassify == Classify

SpecClassify == InitClassify /\ [][NextClassify]_vars

(***************************************************************************)
(* _parse_resource_blocks as a state machine                               *)
(***************************************************************************)
InitParse ==
    /\ whatif_content = <<>>
    /\ patterns = <<>>
    /\ result = None
    /\ resources = <<>>
    /\ resource_patterns = <<>>
    /\ count = None
    /\ args \in {[lines |-> SplitLines(text)] : text \in Texts}
    /\ files = None
    /\ RISK_BUCKETS = None
    /\ pc = "start"

\* The call _parse_resource_blocks(lines).
ParseBlocks ==
    /\ pc = "start"
    /\ result' = ParseResourceBlocks(args.lines)
    /\ pc' = "done"
    /\ UNCHANGED <<whatif_content, patterns, resources, resource_patterns, count,
                   args, files, RISK_BUCKETS>>

NextParse == ParseBlocks

SpecParse == InitParse /\ [][NextParse]_vars

(***************************************************************************)
(* load_user_patterns and load_builtin_patterns as a state machine         *)
(***************************************************************************)
InitLoad ==
    /\ whatif_content = <<>>
    /\ patterns = <<>>
    /\ result = None
    /\ resources = <<>>
    /\ resource_patterns = <<>>
    /\ count = None
    /\ args \in {[file_path |-> USER_PATH], [data_path |-> BUILTIN_PATH]}
    /\ files \in FileSystems
    /\ RISK_BUCKETS = None
    /\ pc = "start"

\* The call load_user_patterns(file_path).
LoadUser ==
    /\ pc = "start"
    /\ "file_path" \in DOMAIN args
    /\ result' = LoadUserPatterns(files, args.file_path)
    /\ pc' = "done"
    /\ UNCHANGED <<whatif_content, patterns, resources, resource_patterns, count,
                   args, files, RISK_BUCKETS>>

\* The call load_builtin_patterns().
LoadBuiltin ==
    /\ pc = "start"
    /\ "data_path" \in DOMAIN args
    /\ result' = LoadBuiltinPatterns(files)
    /\ pc' = "done"
    /\ UNCHANGED <<whatif_content, patterns, resources, resource_patterns, count,
                   args, files, RISK_BUCKETS>>

NextLoad == LoadUser \/ LoadBuiltin

SpecLoad == InitLoad /\ [][NextLoad]_vars

(***************************************************************************)
(* evaluate_risk_buckets as a state machine                                *)
(***************************************************************************)
InitEvaluate ==
    /\ whatif_content = <<>>
    /\ patterns = <<>>
    /\ result = None
    /\ resources = <<>>
    /\ resource_patterns = <<>>
    /\ count = None
    /\ args \in EvaluateCalls
    /\ files = None
    /\ RISK_BUCKETS \in Registries
    /\ pc = "start"

\* The call evaluate_risk_buckets(data, enabled_buckets, ...).
Evaluate ==
    /\ pc = "start"
    /\ result' = EvaluateRiskBuckets(RISK_BUCKETS, args.data, args.enabled_buckets,
                                     args.drift_threshold, args.intent_threshold,
                                     args.operations_threshold, args.custom_thresholds)
    /\ pc' = "done"
    /\ UNCHANGED <<whatif_content, patterns, resources, resource_patterns, count,
                   args, files, RISK_BUCKETS>>

NextEvaluate == Evaluate

SpecEvaluate == InitEvaluate /\ [][NextEvaluate]_vars

(***************************************************************************)
(* get_enabled_buckets as a state machine                                  *)
(***************************************************************************)
InitEnabled ==
    /\ whatif_content = <<>>
    /\ patterns = <<>>
    /\ result = None
    /\ resources = <<>>
    /\ resource_patterns = <<>>
    /\ count = None
    /\ args \in EnabledCalls
    /\ files = None
    /\ RISK_BUCKETS = BUILTIN_RISK_BUCKETS
    /\ pc = "start"

\* The call get_enabled_buckets(skip_drift, skip_intent, ...).
GetEnabled ==
    /\ pc = "start"
    /\ result' = GetEnabledBuckets(args.skip_drift, args.skip_intent,
                                   args.has_pr_metadata, args.custom_agent_ids,
                                   args.skip_agents)
    /\ pc' = "done"
    /\ UNCHANGED <<whatif_content, patterns, resources, resource_patterns, count,
                   args, files, RISK_BUCKETS>>

NextEnabled == GetEnabled

SpecEnabled == InitEnabled /\ [][NextEnabled]_vars

(***************************************************************************)
(* register_agents, called any number of times, as a state machine         *)
(***************************************************************************)
InitRegistry ==
    /\ whatif_content = <<>>
    /\ patterns = <<>>
    /\ result = None
    /\ resources = <<>>
    /\ resource_patterns = <<>>
    /\ count = None
    /\ args = None
    /\ files = None
    /\ RISK_BUCKETS = BUILTIN_RISK_BUCKETS
    /\ pc = "start"

\* The call register_agents(agents).
Register ==
    /\ pc \in {"start", "done"}
    /\ \E agents \in AgentBatches :
          /\ args' = [agents |-> agents]
          /\ RISK_BUCKETS' = RegisterAgents(RISK_BUCKETS, agents)[1]
          /\ result' = RegisterAgents(RISK_BUCKETS, agents)[2]
    /\ pc' = "done"
    /\ UNCHANGED <<whatif_content, patterns, resources, resource_patterns, count, files>>

NextRegistry == Register

SpecRegistry == InitRegistry /\ [][NextRegistry]_vars

(***************************************************************************)
(* Properties of filter_whatif_text (checked under SpecFilter)             *)
(***************************************************************************)
\* xs is a subsequence of ys: ys with some elements taken out.
RECURSIVE IsSubsequence(_, _)
IsSubsequence(xs, ys) ==
    IF xs = <<>> THEN TRUE
    ELSE IF ys = <<>> THEN FALSE
    ELSE IF Head(xs) = Head(ys) THEN IsSubsequence(Tail(xs), Tail(ys))
    ELSE IsSubsequence(xs, Tail(ys))

\* Concatenation of a sequence of sequences.
RECURSIVE Flatten(_)
Flatten(ss) == IF ss = <<>> THEN <<>> ELSE Head(ss) \o Flatten(Tail(ss))

\* The lines of the input text and of the returned filtered_text.
InputLines == SplitLines(whatif_content)
FilteredLines == SplitLines(result[1])

\* The parse of the input text: <<preamble, blocks, epilogue>>.
Parsed == ParseResourceBlocks(InputLines)

\* line is a property-change line that a property pattern of the call matches.
PropertyMatched(line) ==
    /\ IsPropertyChangeLine(line)
    /\ AnyMatches(line, PropertyPatterns(patterns), DEFAULT_FUZZY_THRESHOLD)

\* A resource pattern of the call matches block b.
ResourceMatched(b) ==
    \E k \in 1..Len(patterns) :
        patterns[k].pattern_type = "resource" /\ MatchesResourcePattern(b, patterns[k])

\* Block b qualifies for auto-suppression: Modify, matched by no resource
\* pattern, at least one property-change line, all of them matched.
AutoSuppressible(b) ==
    /\ b.operation = Modify
    /\ ~ResourceMatched(b)
    /\ \E n \in 1..Len(b.lines) : IsPropertyChangeLine(b.lines[n])
    /\ \A n \in 1..Len(b.lines) :
          IsPropertyChangeLine(b.lines[n]) => PropertyMatched(b.lines[n])

\* The lines of b without its matched property-change lines.
UnmatchedLines(b) == SelectSeq(b.lines, LAMBDA l : ~PropertyMatched(l))

\* The input lines without the lines of the blocks whose index is in D.
LinesWithoutBlocks(p, D) ==
    p[1] \o Flatten([i \in 1..Len(p[2]) |-> IF i \in D THEN <<>> ELSE p[2][i].lines]) \o p[3]

\* The lines before block i, and those after it.
LinesBefore(p, i) == p[1] \o Flatten([k \in 1..(i - 1) |-> p[2][k].lines])
LinesAfter(p, i) == Flatten([k \in 1..(Len(p[2]) - i) |-> p[2][i + k].lines]) \o p[3]

\* Block i of parse p is in lines out with exactly the lines keep, between what
\* is left of the lines before it and what is left of the lines after it.
BlockKeptAs(p, i, keep, out) ==
    \E k \in 0..(Len(out) - Len(keep)) :
        /\ SubSeq(out, k + 1, k + Len(keep)) = keep
        /\ IsSubsequence(SubSeq(out, 1, k), LinesBefore(p, i))
        /\ IsSubsequence(SubSeq(out, k + Len(keep) + 1, Len(out)), LinesAfter(p, i))

\* C1 (conservation): the lines of filtered_text are a subsequence of the lines
\* of the input: no line is added, altered or moved.
C1_Conservation ==
    pc = "done" => IsSubsequence(FilteredLines, InputLines)

\* C1 witness: a call that removed a line and kept at least two.
C1_Witness ==
    /\ pc = "done"
    /\ result[2] >= 1
    /\ Len(FilteredLines) >= 2

\* C2 (auto-suppression), as claimed: every Modify block matched by no resource
\* pattern whose property-change lines all matched is removed whole, counted in
\* blocks_removed, recorded in removed_block_info, and its matched property
\* lines are counted in property_lines_removed.
C2_AutoSuppression ==
    pc = "done" =>
        With(Parsed, LAMBDA p :
            LET S == {i \in 1..Len(p[2]) : AutoSuppressible(p[2][i])}
            IN S # {} =>
                /\ IsSubsequence(FilteredLines, LinesWithoutBlocks(p, S))
                /\ Len(result) = 4
                /\ result[3] >= Cardinality(S)
                /\ Len(result[4]) >= Cardinality(S)
                /\ \A i \in S : result[2] >= Len(p[2][i].property_change_indices))

\* C3 (no other auto-suppression): a block matched by no resource pattern that
\* is not a Modify block with all of its (at least one) property-change lines
\* matched keeps its header and every unmatched line; only its matched
\* property-change lines are gone.
C3_NoOtherSuppression ==
    pc = "done" =>
        With(Parsed, LAMBDA p :
            \A i \in 1..Len(p[2]) :
                (~ResourceMatched(p[2][i]) /\ ~AutoSuppressible(p[2][i])) =>
                    /\ Head(UnmatchedLines(p[2][i])) = p[2][i].header_line
                    /\ BlockKeptAs(p, i, UnmatchedLines(p[2][i]), FilteredLines))

\* C3 witness: a Create or Delete block whose property-change lines all matched
\* and were removed.
C3_Witness ==
    /\ pc = "done"
    /\ result[2] >= 1
    /\ \E i \in 1..Len(Parsed[2]) :
          /\ Parsed[2][i].operation \in {Create, Delete}
          /\ Parsed[2][i].property_change_indices # <<>>
          /\ UnmatchedLines(Parsed[2][i]) = <<Parsed[2][i].header_line>>

\* The removed_block_info entry claimed for block b.
IsRemovedInfoOf(entry, b) ==
    /\ entry.resource_name = Split(b.resource_type, "/")[Len(Split(b.resource_type, "/"))]
    /\ entry.resource_type \in {b.resource_type, ExtractArmType(b.resource_type)}
    /\ entry.operation = b.operation

\* C4 (resource patterns), as claimed: every block a resource pattern matches
\* is removed whole, counted in blocks_removed and recorded in
\* removed_block_info, and adds nothing to property_lines_removed.
C4_ResourcePatternDropsBlock ==
    pc = "done" =>
        With(Parsed, LAMBDA p :
            LET R == {i \in 1..Len(p[2]) : ResourceMatched(p[2][i])}
            IN R # {} =>
                /\ IsSubsequence(FilteredLines, LinesWithoutBlocks(p, R))
                /\ Len(result) = 4
                /\ result[3] >= Cardinality(R)
                /\ \A i \in R : \E k \in 1..Len(result[4]) :
                        IsRemovedInfoOf(result[4][k], p[2][i])
                /\ result[2] <= Cardinality({n \in 1..Len(InputLines) :
                                                PropertyMatched(InputLines[n])}))

\* A resource pattern with a recognised operation suffix whose type part
\* matches block b and whose operation is not b's.
GatedAway(b, pattern) ==
    /\ pattern.pattern_type = "resource"
    /\ Contains(<<":">>, pattern.value)
    /\ OpLookup(Strip(RSplitColon(pattern.value)[2])) # <<>>
    /\ OpLookup(Strip(RSplitColon(pattern.value)[2]))[1] # b.operation
    /\ MatchesResourcePattern(b, [pattern EXCEPT !.value = Strip(RSplitColon(@)[1])])

\* C5 (operation gating), as claimed: when the only resource patterns that
\* match a block's type carry another operation, the block survives, and with
\* no block removed blocks_removed is 0.
C5_OperationGating ==
    pc = "done" =>
        With(Parsed, LAMBDA p :
            (/\ \E i \in 1..Len(p[2]) : \E k \in 1..Len(patterns) :
                    GatedAway(p[2][i], patterns[k])
             /\ \A i \in 1..Len(p[2]) :
                    ~ResourceMatched(p[2][i]) /\ ~AutoSuppressible(p[2][i]))
            =>
                /\ \A i \in 1..Len(p[2]) :
                      BlockKeptAs(p, i, UnmatchedLines(p[2][i]), FilteredLines)
                /\ Len(result) = 4
                /\ result[3] = 0)

\* C6 (property patterns touch property-change lines only): the lines that are
\* not property-change lines (headers, attribute lines, all other text) are in
\* filtered_text exactly as in the input, in block mode and in fallback mode.
C6_OnlyPropertyLinesRemoved ==
    pc = "done" =>
        SelectSeq(FilteredLines, LAMBDA l : ~IsPropertyChangeLine(l))
            = SelectSeq(InputLines, LAMBDA l : ~IsPropertyChangeLine(l))

\* C6 witness: a keyword occurs in a line that is not a property-change line and
\* in a property-change line; the call removed the latter.
C6_Witness ==
    /\ pc = "done"
    /\ result[2] >= 1
    /\ \E n \in 1..Len(InputLines) :
          /\ ~IsPropertyChangeLine(InputLines[n])
          /\ AnyMatches(InputLines[n], PropertyPatterns(patterns), DEFAULT_FUZZY_THRESHOLD)

\* C7 (fallback path), as claimed: with no resource header in the input a line
\* is dropped exactly when it is a matched property-change line, and
\* blocks_removed is 0.
C7_FallbackPath ==
    (pc = "done" /\ \A n \in 1..Len(InputLines) : ~IsResourceHeader(InputLines[n])) =>
        /\ FilteredLines = SelectSeq(InputLines, LAMBDA l : ~PropertyMatched(l))
        /\ Len(result) = 4
        /\ result[3] = 0

\* C8 (preamble and epilogue kept): in block mode filtered_text begins with the
\* preamble lines and ends with the epilogue lines.
C8_PreambleEpilogueKept ==
    pc = "done" =>
        With(Parsed, LAMBDA p :
            p[2] # <<>> =>
                /\ Len(FilteredLines) >= Len(p[1]) + Len(p[3])
                /\ SubSeq(FilteredLines, 1, Len(p[1])) = p[1]
                /\ SubSeq(FilteredLines, Len(FilteredLines) - Len(p[3]) + 1,
                          Len(FilteredLines)) = p[3])

\* C8 witness: a text with preamble and epilogue from which a line was removed.
C8_Witness ==
    /\ pc = "done"
    /\ result[2] >= 1
    /\ Parsed[1] # <<>>
    /\ Parsed[3] # <<>>

\* C9 (shape of the result), as claimed: filter returns four components, and
\* with an empty pattern list the input text, 0, 0 and an empty list.
C9_FourComponents ==
    pc = "done" =>
        /\ Len(result) = 4
        /\ patterns = <<>> => result = <<whatif_content, 0, 0, <<>>>>

\* The pattern is a regex pattern whose value is no valid regular expression.
IsInvalidRegex(p) == p.pattern_type = "regex" /\ ~ReCompiles(p.value)

\* C20 (invalid regex): a call given a regex pattern whose value is no valid
\* regular expression returns normally, and returns what it returns for the
\* list without that pattern: the pattern removes no line and every other
\* pattern of the list is applied.
C20_InvalidRegexMatchesNothing ==
    (pc = "done" /\ \E k \in 1..Len(patterns) : IsInvalidRegex(patterns[k]))
    => /\ Len(result) >= 2
       /\ result[1] \in Seq({whatif_content[i] : i \in 1..Len(whatif_content)})
       /\ result[2] \in Nat
       /\ result = FilterWhatifTextResult(
                       whatif_content,
                       SelectSeq(patterns, LAMBDA p : ~IsInvalidRegex(p)),
                       DEFAULT_FUZZY_THRESHOLD)

\* C20 witness: a call given an invalid regex and another pattern removed a
\* line and kept another property-change line.
C20_Witness ==
    /\ pc = "done"
    /\ \E k \in 1..Len(patterns) : IsInvalidRegex(patterns[k])
    /\ result[2] >= 1
    /\ \E i \in 1..Len(FilteredLines) : IsPropertyChangeLine(FilteredLines[i])

\* The lists that hold the patterns of pats in some order.
PermutationsOf(pats) ==
    {[i \in 1..Len(pats) |-> pats[f[i]]] : f \in Permutations(1..Len(pats))}

\* The lines the filter evaluates property patterns against, each left out iff
\* it is a property-change line that some property pattern matches: every
\* line of the text in fallback mode, the lines of the blocks in block mode.
LinesWithoutMatched(p) ==
    IF p[2] = <<>> THEN SelectSeq(InputLines, LAMBDA l : ~PropertyMatched(l))
    ELSE p[1] \o Flatten([i \in 1..Len(p[2]) |-> UnmatchedLines(p[2][i])]) \o p[3]

C29_Idempotent ==
    pc = "done" =>
        FilterWhatifTextResult(result[1], patterns, DEFAULT_FUZZY_THRESHOLD) = <<result[1], 0>>

\* C29 witness: a line was removed, and the parse of filtered_text has an
\* epilogue that the parse of the input does not have.
C29_Witness ==
    /\ pc = "done"
    /\ result[2] >= 1
    /\ Parsed[2] # <<>>
    /\ Parsed[3] = <<>>
    /\ ParseResourceBlocks(FilteredLines)[3] # <<>>

(***************************************************************************)
(* Properties of reclassify_resource_noise (checked under SpecReclassify)  *)
(***************************************************************************)
\* The confidence of a resource dict as reclassify reads it.
Confidence(r) == Lower(Get(r, "confidence_level", medium))

\* Confidence levels in increasing order.
ConfidenceRank(c) ==
    CASE c = noise -> 0 [] c = low -> 1 [] c = medium -> 2 [] c = high -> 3

\* A pattern of the call matches resource dict r.
PatternMatches(r) ==
    \E k \in 1..Len(resource_patterns) :
        MatchesResourcePatternPostLlm(Get(r, "resource_type", <<>>),
                                      Get(r, "action", <<>>), resource_patterns[k])

\* C10 (reclassification monotonicity): a call leaves every low or noise record
\* as it was, raises no record's confidence, sets every other record a pattern
\* matches to low with the reason, and returns the number of records it changed.
C10_ReclassifyMonotone ==
    [][(pc = "start" /\ pc' = "done") =>
        /\ Len(resources') = Len(resources)
        /\ \A i \in 1..Len(resources) :
              /\ Confidence(resources[i]) \in {low, noise} => resources'[i] = resources[i]
              /\ ConfidenceRank(Confidence(resources'[i]))
                    <= ConfidenceRank(Confidence(resources[i]))
              /\ (Confidence(resources[i]) \notin {low, noise} /\ PatternMatches(resources[i]))
                    => /\ resources'[i]["confidence_level"] = low
                       /\ resources'[i]["confidence_reason"] = MATCHED_REASON
        /\ count' = Cardinality({i \in 1..Len(resources) : resources'[i] # resources[i]})
      ]_vars

\* C10 witness: a call changed a record and left a matched noise record alone.
C10_Witness ==
    /\ pc = "done"
    /\ count >= 1
    /\ \E i \in 1..Len(resources) :
          /\ Confidence(resources[i]) = noise
          /\ PatternMatches(resources[i])
    /\ \E i \in 1..Len(resources) :
          /\ Get(resources[i], "confidence_level", medium) = low
          /\ Get(resources[i], "confidence_reason", <<>>) = MATCHED_REASON

\* C11 (frame of reclassification): a call keeps the number and the order of
\* the records, changes on a record nothing but confidence_level and
\* confidence_reason, and leaves a record that no pattern matches, and every
\* record when the pattern list is empty, exactly as it was.
C11_ReclassifyFrame ==
    [][(pc = "start" /\ pc' = "done") =>
        /\ Len(resources') = Len(resources)
        /\ \A i \in 1..Len(resources) :
              /\ DOMAIN resources[i] \subseteq DOMAIN resources'[i]
              /\ DOMAIN resources'[i] \subseteq
                    DOMAIN resources[i] \cup {"confidence_level", "confidence_reason"}
              /\ \A f \in DOMAIN resources[i] \ {"confidence_level", "confidence_reason"} :
                    resources'[i][f] = resources[i][f]
              /\ ~PatternMatches(resources[i]) => resources'[i] = resources[i]
        /\ resource_patterns = <<>> => resources' = resources
      ]_vars

\* C11 witness: a call changed one record and left beside it a record of
\* higher confidence that no pattern matches.
C11_Witness ==
    /\ pc = "done"
    /\ count = 1
    /\ Len(resources) = 2
    /\ \E i \in 1..Len(resources) :
          /\ Get(resources[i], "confidence_reason", <<>>) = MATCHED_REASON
          /\ "resource_type" \in DOMAIN resources[i]
    /\ \E i \in 1..Len(resources) :
          /\ Confidence(resources[i]) \in {medium, high}
          /\ ~PatternMatches(resources[i])

\* The provider prefix that a full ARM type carries and a short type omits.
ProviderPrefix == <<"M","i","c","r","o","s","o","f","t",".">>

\* A type without its provider prefix.
WithoutProviderPrefix(type) ==
    IF StartsWith(type, ProviderPrefix)
    THEN SubSeq(type, Len(ProviderPrefix) + 1, Len(type))
    ELSE type

\* Pattern p, with a recognised operation suffix, names the type of record r
\* literally or without the provider prefix, and names its action.
CanonicalMatches(r, p) ==
    /\ Contains(<<":">>, p.value)
    /\ LET type_part == Strip(RSplitColon(p.value)[1])
           matched_op == OpLookup(Strip(RSplitColon(p.value)[2]))
           resource_type == Lower(Get(r, "resource_type", <<>>))
       IN /\ matched_op # <<>>
          /\ \/ Contains(Lower(type_part), resource_type)
             \/ Contains(Lower(WithoutProviderPrefix(type_part)), resource_type)
          /\ Lower(Get(r, "action", <<>>)) = Lower(matched_op[1])

\* C12 (canonicalised match in reclassification): a record that is not yet low
\* or noise and whose resource_type omits the provider prefix is set to low by
\* a pattern that names its type with the prefix and names its action.
C12_CanonicalisedMatch ==
    [][(pc = "start" /\ pc' = "done") =>
        \A i \in 1..Len(resources) :
            (/\ Confidence(resources[i]) \notin {low, noise}
             /\ \E k \in 1..Len(resource_patterns) :
                    CanonicalMatches(resources[i], resource_patterns[k]))
            => Get(resources'[i], "confidence_level", medium) = low
      ]_pc

(***************************************************************************)
(* Properties of _matches_resource_pattern (checked under SpecMatchResource) *)
(***************************************************************************)
\* needle is a case-insensitive substring of the raw resource_type of block b
\* or of its canonical ARM type.
TypeMatchesBlock(needle, b) ==
    \/ Contains(Lower(needle), Lower(b.resource_type))
    \/ Contains(Lower(needle), Lower(ExtractArmType(b.resource_type)))

\* The position of the last ":" of a pattern value that holds one.
LastColon(value) ==
    CHOOSE i \in 1..Len(value) :
        value[i] = ":" /\ \A j \in (i + 1)..Len(value) : value[j] # ":"

\* The parts of a pattern value before and after its last ":", trimmed.
TypePart(value) == Strip(SubSeq(value, 1, LastColon(value) - 1))
Suffix(value) == Strip(SubSeq(value, LastColon(value) + 1, Len(value)))

\* The value ends in ":" and one of the six operation names, in any case.
HasOperationSuffix(value) ==
    /\ \E i \in 1..Len(value) : value[i] = ":"
    /\ \E op \in VALID_OPERATIONS : Lower(op) = Lower(Suffix(value))

\* C13 (resource-level match rule): a pattern without ":" matches a block iff
\* its value is a case-insensitive substring of the block's raw resource_type
\* or of its canonical ARM type, whatever the operation; a pattern with a
\* recognised ":Operation" suffix matches iff its type part matches in that way
\* and the suffix equals the block's operation, compared case-insensitively.
C13_ResourceMatchRule ==
    pc = "done" =>
        LET value == args.pattern.value
        IN /\ (~\E i \in 1..Len(value) : value[i] = ":")
                => (result <=> TypeMatchesBlock(value, args.block))
           /\ HasOperationSuffix(value)
                => (result <=> /\ TypeMatchesBlock(TypePart(value), args.block)
                               /\ Lower(Suffix(value)) = Lower(args.block.operation))

\* C13 witness: a pattern with an operation suffix matched a block whose raw
\* resource_type does not hold its type part, only its ARM type does.
C13_Witness ==
    /\ pc = "done"
    /\ result = TRUE
    /\ HasOperationSuffix(args.pattern.value)
    /\ ~Contains(Lower(TypePart(args.pattern.value)), Lower(args.block.resource_type))

\* C14 (unrecognised operation suffix): when the text after the last ":" of a
\* pattern is none of the six operation names, compared case-insensitively,
\* the call returns a boolean, and it is true iff the whole value, colon
\* included, is a case-insensitive substring of the type, whatever the
\* block's operation.
C14_InvalidOperationFallback ==
    (/\ pc = "done"
     /\ \E i \in 1..Len(args.pattern.value) : args.pattern.value[i] = ":"
     /\ ~HasOperationSuffix(args.pattern.value))
    => /\ result \in BOOLEAN
       /\ result <=> TypeMatchesBlock(args.pattern.value, args.block)

\* C14 witness: a pattern whose suffix is no operation name matched a block
\* by its whole value, and the block's type also holds the part before the
\* colon.
C14_Witness ==
    /\ pc = "done"
    /\ result = TRUE
    /\ \E i \in 1..Len(args.pattern.value) : args.pattern.value[i] = ":"
    /\ ~HasOperationSuffix(args.pattern.value)
    /\ args.block.operation # Modify

(***************************************************************************)
(* Properties of the two resource matchers (checked under SpecMatchPair)   *)
(***************************************************************************)
\* The type/operation rule of a pattern value on one type string: the type
\* part is a case-insensitive substring of it and a recognised operation
\* suffix equals the operation, the whole value counting as the type part
\* when there is no recognised suffix.
RuleOnType(value, type, operation) ==
    IF HasOperationSuffix(value)
    THEN /\ Contains(Lower(TypePart(value)), Lower(type))
         /\ Lower(Suffix(value)) = Lower(operation)
    ELSE Contains(Lower(value), Lower(type))

Segment(k) == Split(args.full_path, "/")[k + 1]
NumSegments == Len(Split(args.full_path, "/"))

\* C15 (ARM type extraction): a path of fewer than 2 segments is returned
\* unchanged; otherwise the result is segment 0 joined by "/" with the
\* segments at positions 1, 3, 5 and so on.
C15_ExtractArmType ==
    pc = "done" =>
        IF NumSegments < 2
        THEN result = args.full_path
        ELSE result = JoinWith(<<Segment(0)>> \o
                                   [k \in 1..(NumSegments \div 2) |-> Segment(2 * k - 1)],
                               "/")

\* C15 witness: a path of five segments, as namespace/type/name/type/name,
\* came back as its three segments namespace/type/type.
C15_Witness ==
    /\ pc = "done"
    /\ NumSegments = 5
    /\ \A k \in 0..4 : Segment(k) # <<>>
    /\ Split(result, "/") = <<Segment(0), Segment(1), Segment(3)>>

(***************************************************************************)
(* Properties of the line classifiers (checked under SpecClassify)         *)
(***************************************************************************)
\* The number of blanks the line starts with, counted one by one.
RECURSIVE LeadingBlanks(_)
LeadingBlanks(l) ==
    IF l # <<>> /\ Head(l) = " " THEN 1 + LeadingBlanks(Tail(l)) ELSE 0

\* The character after the leading blanks, "" when there is none.
FirstAfterBlanks(l) ==
    IF LeadingBlanks(l) < Len(l) THEN l[LeadingBlanks(l) + 1] ELSE ""

\* C16 (header/property disjointness): no line is both a resource header and
\* a property-change line; a header has exactly 2 leading blanks before its
\* change symbol and holds a "/", a property-change line has at least 4
\* leading blanks before "+", "-" or "~", and a legend line (2 blanks, a
\* symbol, no "/") is neither.
C16_HeaderPropertyDisjoint ==
    pc = "done" =>
        LET l == args.line
        IN /\ ~(result.is_resource_header /\ result.is_property_change_line)
           /\ result.is_resource_header
                => /\ LeadingBlanks(l) = 2
                   /\ FirstAfterBlanks(l) \in HEADER_SYMBOLS
                   /\ \E i \in 1..Len(l) : l[i] = "/"
           /\ result.is_property_change_line
                => /\ LeadingBlanks(l) >= 4
                   /\ FirstAfterBlanks(l) \in {"+", "-", "~"}
           /\ (/\ LeadingBlanks(l) = 2
               /\ FirstAfterBlanks(l) \in HEADER_SYMBOLS
               /\ ~\E i \in 1..Len(l) : l[i] = "/")
                => /\ ~result.is_resource_header
                   /\ ~result.is_property_change_line

\* C16 witness: a header line, which starts with 2 blanks and one of the
\* symbols that also start property-change lines, was classified as a header
\* and not as a property-change line.
C16_Witness ==
    /\ pc = "done"
    /\ result.is_resource_header
    /\ ~result.is_property_change_line
    /\ FirstAfterBlanks(args.line) \in {"+", "-", "~"}

(***************************************************************************)
(* Properties of _parse_resource_blocks (checked under SpecParse)          *)
(***************************************************************************)
\* The lines of the blocks of a parse result, block after block.
BlockLines(parsed) == Flatten([i \in 1..Len(parsed[2]) |-> parsed[2][i].lines])

\* C17 (partition): the preamble, then the lines of the blocks in order, then
\* the epilogue are the input lines exactly, none lost, duplicated or moved.
C17_Partition ==
    pc = "done" => result[1] \o BlockLines(result) \o result[3] = args.lines

\* C17 witness: a parse gave a preamble, a block of more than its header
\* line and an epilogue.
C17_Witness ==
    /\ pc = "done"
    /\ result[1] # <<>>
    /\ \E i \in 1..Len(result[2]) : Len(result[2][i].lines) > 1
    /\ result[3] # <<>>

\* The number of resource-header lines among lines.
HeaderCount(lines) == Cardinality({i \in 1..Len(lines) : IsResourceHeader(lines[i])})

\* C23 (block structure): after the forward scan and the epilogue peeling
\* there are as many blocks as the input has resource-header lines, each
\* block's first line is its header, no later line of a block is a header,
\* and no block is empty.
C23_BlockStructure ==
    pc = "done" =>
        /\ Len(result[2]) = HeaderCount(args.lines)
        /\ \A i \in 1..Len(result[2]) :
              LET b == result[2][i]
              IN /\ Len(b.lines) >= 1
                 /\ b.lines[1] = b.header_line
                 /\ IsResourceHeader(b.lines[1])
                 /\ \A j \in 2..Len(b.lines) : ~IsResourceHeader(b.lines[j])

\* C23 witness: two blocks, the last one peeled down to its header line.
C23_Witness ==
    /\ pc = "done"
    /\ Len(result[2]) = 2
    /\ Len(result[2][2].lines) = 1
    /\ result[3] # <<>>

\* A line of white space only.
IsBlankLine(line) == Strip(line) = <<>>

\* A non-blank line that does not start with a space.
IsTrailerLine(line) == ~IsBlankLine(line) /\ line[1] # " "

\* The lines of the last block of the parse, as the peeling left them.
LastBlockLines == result[2][Len(result[2])].lines

\* C24 as stated: the epilogue is the trailing run of non-blank lines that do
\* not start with a space; peeling stops at the first indented or blank line
\* met going backward, so the epilogue holds no blank line and does not reach
\* past one.
C24_EpilogueStopsAtBlank ==
    (pc = "done" /\ result[2] # <<>>) =>
        /\ \A k \in 1..Len(result[3]) : IsTrailerLine(result[3][k])
        /\ Len(LastBlockLines) > 1 => ~IsTrailerLine(LastBlockLines[Len(LastBlockLines)])

\* C24 as the code has it: going backward from the last line of the last
\* block down to the line after its header, blank lines are passed over, each
\* non-blank line that does not start with a space moves the peel point to
\* itself, and the walk ends at the first non-blank line that starts with a
\* space.  So the epilogue starts with a non-blank line that does not start
\* with a space, holds such lines and blank lines only, and what peeling
\* leaves in the block holds such a line only before a non-blank indented one.
C24_EpiloguePeeling ==
    pc = "done" =>
        IF result[2] = <<>> THEN result[3] = <<>>
        ELSE /\ result[3] # <<>> => IsTrailerLine(result[3][1])
             /\ \A k \in 1..Len(result[3]) :
                    IsBlankLine(result[3][k]) \/ IsTrailerLine(result[3][k])
             /\ \A k \in 2..Len(LastBlockLines) :
                    IsTrailerLine(LastBlockLines[k]) =>
                        \E j \in (k + 1)..Len(LastBlockLines) :
                            /\ ~IsBlankLine(LastBlockLines[j])
                            /\ ~IsTrailerLine(LastBlockLines[j])

\* C24 witness: the peeling went past a blank line, which is in the epilogue
\* after the line the epilogue starts with.
C24_Witness ==
    /\ pc = "done"
    /\ result[2] # <<>>
    /\ Len(result[3]) >= 2
    /\ IsTrailerLine(result[3][1])
    /\ IsBlankLine(result[3][Len(result[3])])

\* C25 (property-change indices): in every parsed block, the last one after
\* epilogue peeling included, the property-change index list is strictly
\* increasing, every index is at least 1 and less than the block's line
\* count, and an index is in the list iff the block line at that index (the
\* header being at index 0) is a property-change line; no line of the
\* epilogue is a property-change line.
C25_PropertyChangeIndices ==
    pc = "done" =>
        /\ \A i \in 1..Len(result[2]) :
              LET b == result[2][i]
                  indices == b.property_change_indices
              IN /\ \A k \in 1..(Len(indices) - 1) : indices[k] < indices[k + 1]
                 /\ \A k \in 1..Len(indices) : indices[k] >= 1 /\ indices[k] < Len(b.lines)
                 /\ \A j \in 0..(Len(b.lines) - 1) :
                        (\E k \in 1..Len(indices) : indices[k] = j)
                            <=> IsPropertyChangeLine(b.lines[j + 1])
        /\ \A k \in 1..Len(result[3]) : ~IsPropertyChangeLine(result[3][k])

\* C25 witness: the last block kept a property-change index when the lines
\* after it were peeled into the epilogue.
C25_Witness ==
    /\ pc = "done"
    /\ result[2] # <<>>
    /\ result[2][Len(result[2])].property_change_indices # <<>>
    /\ result[3] # <<>>

(***************************************************************************)
(* Properties of the pattern loaders (checked under SpecLoad)              *)
(***************************************************************************)
\* The lines of the file the call loads, as reading the file gives them.
LinesRead ==
    IF "file_path" \in DOMAIN args
    THEN SplitLines(files[args.file_path].text)
    ELSE SplitLines(files[args.data_path].text)

\* The call found its file, read it and returned patterns.
LoadedFile == pc = "done" /\ "returned" \in DOMAIN result /\ files # <<>> /\
              (\A path \in DOMAIN files : files[path].readable) /\
              (IF "file_path" \in DOMAIN args THEN args.file_path ELSE args.data_path)
                  \in DOMAIN files

\* A line without the line end that closes it.
WithoutLineEnd(l) ==
    IF l # <<>> /\ l[Len(l)] = "\n" THEN SubSeq(l, 1, Len(l) - 1) ELSE l

\* The line gives a pattern: it is not blank after trimming and its trimmed
\* form does not start with "#".
GivesPattern(l) == Strip(l) # <<>> /\ Strip(l)[1] # "#"

\* The kind of the pattern a line gives, and the pattern's value.
KindOfLine(l) ==
    IF StartsWith(Strip(l), PREFIX_REGEX) THEN "regex"
    ELSE IF StartsWith(Strip(l), PREFIX_FUZZY) THEN "fuzzy"
    ELSE IF StartsWith(Strip(l), PREFIX_RESOURCE) THEN "resource"
    ELSE "keyword"

ValueOfLine(l) ==
    LET cut == CASE KindOfLine(l) = "regex" -> Len(PREFIX_REGEX)
                 [] KindOfLine(l) = "fuzzy" -> Len(PREFIX_FUZZY)
                 [] KindOfLine(l) = "resource" -> Len(PREFIX_RESOURCE)
                 [] OTHER -> 0
    IN Strip(SubSeq(Strip(l), cut + 1, Len(Strip(l))))

\* C18 (pattern loading): loading gives one pattern for each line that is not
\* blank after trimming and does not start with "#", in file order; its kind
\* is that of the prefix "regex:", "fuzzy:" or "resource:" with the trimmed
\* remainder as value, or keyword with the whole trimmed line as value; its
\* raw is the line as read.
C18_PatternLoading ==
    LoadedFile =>
        LET kept == SelectSeq(LinesRead, GivesPattern)
        IN /\ Len(result.returned) = Len(kept)
           /\ \A i \in 1..Len(kept) :
                 /\ result.returned[i].pattern_type = KindOfLine(kept[i])
                 /\ result.returned[i].value = ValueOfLine(kept[i])
                 /\ result.returned[i].raw = WithoutLineEnd(kept[i])

\* C19 (missing pattern files): loading a user pattern file that does not
\* exist raises FileNotFoundError and returns no patterns; loading the built-in
\* patterns when their file is missing or may not be read returns an empty
\* list and raises nothing.
C19_MissingFiles ==
    pc = "done" =>
        /\ ("file_path" \in DOMAIN args /\ args.file_path \notin DOMAIN files)
              => /\ DOMAIN result = {"raised"}
                 /\ result.raised = "FileNotFoundError"
        /\ ("data_path" \in DOMAIN args /\
                (BUILTIN_PATH \notin DOMAIN files \/ ~files[BUILTIN_PATH].readable))
              => /\ DOMAIN result = {"returned"}
                 /\ result.returned = <<>>

\* C19 witness: load_user_patterns raised FileNotFoundError for its missing
\* file in a file system that holds a readable built-in file.
C19_Witness ==
    /\ pc = "done"
    /\ "file_path" \in DOMAIN args
    /\ args.file_path \notin DOMAIN files
    /\ BUILTIN_PATH \in DOMAIN files /\ files[BUILTIN_PATH].readable
    /\ DOMAIN result = {"raised"}

(***************************************************************************)
(* Properties of evaluate_risk_buckets (checked under SpecEvaluate)        *)
(***************************************************************************)
\* The assessment of the evaluated response, empty when the key is absent.
Assessment ==
    IF "risk_assessment" \in DOMAIN args.data THEN args.data.risk_assessment
    ELSE EmptyDict

\* The rank of a risk level, an unrecognised or absent one counting as low.
LevelRank(level) ==
    LET l == Lower(level)
    IN IF l = high THEN 3 ELSE IF l = medium THEN 2 ELSE 1

\* The rank of the level the assessment gives a bucket.
AssessedRank(bucket_id) ==
    IF "risk_level" \in DOMAIN Assessment[bucket_id]
    THEN LevelRank(Assessment[bucket_id].risk_level)
    ELSE 1

\* The threshold of a bucket: the custom one, else the parameter of the bucket,
\* else the registered bucket's default, else high.
ThresholdOf(bucket_id) ==
    IF bucket_id \in DOMAIN args.custom_thresholds THEN args.custom_thresholds[bucket_id]
    ELSE IF bucket_id = "drift" THEN args.drift_threshold
    ELSE IF bucket_id = "intent" THEN args.intent_threshold
    ELSE IF bucket_id = "operations" /\ args.operations_threshold # <<>>
         THEN args.operations_threshold
    ELSE IF bucket_id \in DOMAIN RISK_BUCKETS THEN RISK_BUCKETS[bucket_id].default_threshold
    ELSE high

\* The bucket is in the assessment with a level at or above its threshold.
Fails(bucket_id) ==
    /\ bucket_id \in DOMAIN Assessment
    /\ AssessedRank(bucket_id) >= LevelRank(ThresholdOf(bucket_id))

\* C21: evaluate_risk_buckets returns is_safe = true iff failed_buckets is
\* empty; failed_buckets holds, in enabled order, exactly the enabled buckets
\* that are in the risk assessment with a risk level (an unrecognised one
\* counting as low) at or above the bucket's threshold, enabled buckets
\* missing from the assessment being skipped; an absent or empty assessment
\* gives is_safe = true, no failed bucket and a default low entry for each
\* enabled bucket.
C21_EvaluateRiskBuckets ==
    pc = "done" =>
        LET is_safe == result[1]
            failed_buckets == result[2]
            risk_assessment == result[3]
            enabled == {args.enabled_buckets[i] : i \in 1..Len(args.enabled_buckets)}
        IN /\ is_safe <=> failed_buckets = <<>>
           /\ IF Assessment = EmptyDict
              THEN /\ is_safe
                   /\ DOMAIN risk_assessment = enabled
                   /\ \A bucket_id \in enabled :
                          risk_assessment[bucket_id].risk_level = low
              ELSE /\ failed_buckets = SelectSeq(args.enabled_buckets, Fails)
                   /\ risk_assessment = Assessment

\* A bucket with an upper-case level fails, one with an unrecognised level
\* and one missing from the assessment do not.
C21_Witness ==
    /\ pc = "done"
    /\ Len(args.enabled_buckets) = 2
    /\ result[1] = FALSE
    /\ Len(result[2]) = 1
    /\ \E i \in 1..2 :
          /\ args.enabled_buckets[i] \in DOMAIN Assessment
          /\ "risk_level" \in DOMAIN Assessment[args.enabled_buckets[i]]
          /\ Assessment[args.enabled_buckets[i]].risk_level = HighCapital
    /\ \E i \in 1..2 :
          \/ args.enabled_buckets[i] \notin DOMAIN Assessment
          \/ /\ "risk_level" \in DOMAIN Assessment[args.enabled_buckets[i]]
             /\ Assessment[args.enabled_buckets[i]].risk_level = extreme

(***************************************************************************)
(* Properties of get_enabled_buckets (checked under SpecEnabled)           *)
(***************************************************************************)
\* The agent id is listed in skip_agents.
Skipped(agent_id) == \E i \in 1..Len(args.skip_agents) : args.skip_agents[i] = agent_id

\* The number of built-in buckets the call enables.
BuiltinsEnabled ==
    (IF args.skip_drift THEN 0 ELSE 1)
    + (IF args.has_pr_metadata /\ ~args.skip_intent THEN 1 ELSE 0)

\* C22: get_enabled_buckets returns, in this order, 'drift' unless skip_drift,
\* then 'intent' only when has_pr_metadata is true and skip_intent is false,
\* then each custom agent id in the given order except those listed in
\* skip_agents; with everything skipped it returns the empty list.
C22_EnabledBuckets ==
    pc = "done" =>
        LET custom == SubSeq(result, BuiltinsEnabled + 1, Len(result))
            kept == SelectSeq(args.custom_agent_ids, LAMBDA agent_id : ~Skipped(agent_id))
        IN /\ Len(result) >= BuiltinsEnabled
           /\ ~args.skip_drift => result[1] = "drift"
           /\ args.has_pr_metadata /\ ~args.skip_intent => result[BuiltinsEnabled] = "intent"
           /\ custom = kept
           /\ (args.skip_drift /\ (args.skip_intent \/ ~args.has_pr_metadata) /\ kept = <<>>)
                  => result = <<>>

\* Both built-in buckets, then the one custom agent that is not skipped.
C22_Witness ==
    /\ pc = "done"
    /\ "custom_agent_ids" \in DOMAIN args
    /\ args.custom_agent_ids = <<"compliance", "cost">>
    /\ args.skip_agents = <<"compliance">>
    /\ result = <<"drift", "intent", "cost">>

(***************************************************************************)
(* Properties of register_agents (checked under SpecRegistry)              *)
(***************************************************************************)
\* C30 (all-or-nothing registration): a call of register_agents that raises
\* ValueError leaves the registry exactly as it was, and after every call the
\* registry maps drift and intent to the original built-in buckets.
C30_AllOrNothing ==
    [][/\ "raised" \in DOMAIN result' => RISK_BUCKETS' = RISK_BUCKETS
       /\ \A id \in BUILTIN_BUCKET_IDS :
             id \in DOMAIN RISK_BUCKETS' /\ RISK_BUCKETS'[id] = BUILTIN_RISK_BUCKETS[id]
      ]_RISK_BUCKETS

\* C30 witness: a call raised for a batch whose first agent could have been
\* registered, and that agent is not in the registry.
C30_Witness ==
    /\ pc = "done"
    /\ "raised" \in DOMAIN result
    /\ Len(args.agents) = 2
    /\ args.agents[1].id \notin BUILTIN_BUCKET_IDS
    /\ args.agents[1].id \notin DOMAIN RISK_BUCKETS

====
